---------------------------- MODULE Spec2Model ----------------------------
(***************************************************************************)
(* A model of the AI terminal assistant:                                   *)
(*   - the tool-calling conversation loop, process_question (src/main.py)  *)
(*     with OpenAIService.process_function_calls                           *)
(*     (src/services/openai_service.py);                                   *)
(*   - the command-execution tool, execute_command, and its risk           *)
(*     classifier, classify_command_risk (src/tools/terminal.py);          *)
(*   - the persisted conversation memory, MemoryManager                    *)
(*     (src/services/memory_manager.py), and main's use of it;             *)
(*   - the threads of a voice session, VoiceSession                        *)
(*     (src/services/voice_session.py), RealtimeService                    *)
(*     (src/services/realtime_service.py) and AudioHandler                 *)
(*     (src/services/audio_handler.py);                                    *)
(*   - the two-tier cache, CacheManager (src/services/cache_manager.py).   *)
(*                                                                         *)
(* Money is counted in units of 1/200 micro-dollar (1 dollar =             *)
(* 200,000,000), the largest unit in which every per-million-token price   *)
(* of MODEL_PRICING is a whole number per token; the sums stay within      *)
(* TLC's integers.                                                         *)
(***************************************************************************)
EXTENDS Integers, Sequences, FiniteSets, TLC

VARIABLES
    \* ---- process_question (src/main.py) ----
    ask_mode,          \* the --ask flag: read-only mode
    bfl_key,           \* whether BFL_API_KEY is set in the environment
    pc,                \* position of process_question
    iteration,         \* the loop counter
    tool_call_count,   \* the cumulative tool-call counter
    totals,            \* total_input/output/cached/reasoning_tokens
    total_cost,        \* cumulative cost, in 1/200 micro-dollars
    response,          \* response.output of the last model response
    input_list,        \* the entries appended to the transcript since the
                       \* last model call (the loop never reads older ones)
    has_function_calls,
    has_web_search,
    has_message,
    executed,          \* call_ids whose handler was invoked for `response`
    executed_commands, \* the commands in the list executed_commands
    spawned_commands,  \* the commands execute_command ran as a subprocess
    outcome,           \* how the request ended, and what the caller got
    \* ---- execute_command (src/tools/terminal.py) ----
    xpc,               \* position of execute_command
    command,           \* its command argument
    working_dir_ok,    \* working_dir is None or names a directory
    requested_timeout, \* the timeout argument: << >> for None, <<n>> for n
    timeout,           \* the effective timeout, seconds
    risk,              \* classify_command_risk's verdict, once computed
    prompted,          \* the confirmation prompt was shown
    answer,            \* what the prompt produced
    spawned,           \* subprocess.Popen started the command
    alive,             \* processes of the command's process group are running
    wait_ended,        \* how the wait on the command ended
    signals,           \* the signals sent to the command's process group
    result,            \* the kind of string execute_command returned
    \* ---- classify_command_risk, called on its own ----
    verdicts,          \* the calls made so far: command and verdict returned
    \* ---- calculate_cost, called on its own ----
    quote,             \* the last call: usage, model and the cost returned
    \* ---- MemoryManager (src/services/memory_manager.py) ----
    max_conversations, \* the manager's limit
    memory,            \* the memory dictionary of the running process
    memory_file,       \* the content of ~/.lolo/memory.json
    added,             \* every conversation given to add_conversation
    \* ---- voice mode (src/services/voice_session.py, realtime_service.py) ----
    cb,                \* position of the transport's callback thread
    event,             \* the event the callback thread is handling
    handled,           \* the number of events received so far
    running,           \* VoiceSession.running
    connected,         \* RealtimeService.connected
    accesses,          \* the reads and writes of shared state made so far
    realtime_usage,    \* RealtimeService.usage, the cumulative UsageStats
    reported,          \* the increments of the response.done events received
    last_usage,        \* VoiceSession.last_usage is set (to the usage object)
    cost_limit_reached,
    cost_warning_shown,
    warnings,          \* the number of cost warnings shown
    display_lock,      \* who holds VoiceSession._display_lock
    conversation_history,
    current_text,      \* current_user_text and current_assistant_text
    tool_runs,         \* the tool calls under way, inline or in background
    calls,             \* the function-call events received, in order
    sent,              \* the events written to the connection, in order
    invoked,           \* the tool functions called, in order
    audio_output_queue,\* RealtimeService.audio_output_queue
    output_queue,      \* AudioHandler.output_queue, the playback queue
    is_playing,        \* AudioHandler.is_playing
    timeline,          \* chunks played and barge-ins received, in order
    mn,                \* position of the main thread
    summary,           \* what the main thread read for the session summary
    stops,             \* the number of calls of VoiceSession.stop
    signalled,         \* the signal handler has run
    \* ---- CacheManager (src/services/cache_manager.py) ----
    now,               \* what time.time() returns
    memory_cache,      \* CacheManager._memory_cache
    disk_cache,        \* the cache files of cache_dir
    cg,                \* position of get: << >>, or the key it looks up on disk
    got,               \* what the last get returned
    sets               \* the number of calls of set so far

reportVars == <<executed_commands, spawned_commands>>
loopVars == <<ask_mode, bfl_key, pc, iteration, tool_call_count, totals,
              total_cost, response, input_list, has_function_calls,
              has_web_search, has_message, executed, outcome, reportVars>>
cmdVars == <<xpc, command, working_dir_ok, requested_timeout, timeout, risk,
             prompted, answer, spawned, alive, wait_ended, signals, result>>
memVars == <<max_conversations, memory, memory_file, added>>
usageVars == <<realtime_usage, reported, last_usage, cost_limit_reached,
               cost_warning_shown, warnings>>
textVars == <<display_lock, conversation_history, current_text>>
toolVars == <<tool_runs, calls, sent, invoked>>
audioVars == <<audio_output_queue, output_queue, is_playing, timeline>>
mainVars == <<mn, summary, stops, signalled>>
voiceVars == <<cb, event, handled, running, connected, accesses, usageVars,
               textVars, toolVars, audioVars, mainVars>>
cacheVars == <<now, memory_cache, disk_cache, cg, got, sets>>
restVars == <<loopVars, cmdVars, verdicts, quote, cacheVars>>
auxVars == <<verdicts, quote, voiceVars, cacheVars>>
vars == <<loopVars, cmdVars, memVars, auxVars>>

----------------------------------------------------------------------------
(* Bounds of the model                                                     *)

\* the largest number of function_call items of one kind in one response
MaxCalls == 3

----------------------------------------------------------------------------
(* config/settings.py                                                      *)

MAX_TOOL_CALLS_PER_REQUEST == 20
MAX_ITERATIONS == 10
\* 0.50 dollars
COST_WARNING_THRESHOLD == 100000000
\* 2.00 dollars
MAX_COST_PER_REQUEST == 400000000

DEFAULT_MODEL == "gpt-5.1"
PricedModels == {"gpt-5.1", "gpt-5", "gpt-5-mini", "gpt-5-nano"}

\* dollars per 1M tokens are micro-dollars per token: 1.25 is 250 units of
\* 1/200 micro-dollar per token, 0.005 is 1
Price(i, o, c) == [input |-> i, output |-> o, cached |-> c]
MODEL_PRICING ==
    [m \in PricedModels |->
        CASE m = "gpt-5.1" -> Price(250, 2000, 25)
          [] m = "gpt-5" -> Price(250, 2000, 25)
          [] m = "gpt-5-mini" -> Price(50, 400, 5)
          [] m = "gpt-5-nano" -> Price(10, 80, 1)]

----------------------------------------------------------------------------
(* The model endpoint: what one response may hold                          *)

FunctionCall(name, fault) ==
    [type |-> "function_call", name |-> name, call_id |-> 0, fault |-> fault]
Plain(type) == [type |-> type, name |-> "", call_id |-> 0, fault |-> "none"]

\* fault: what goes wrong when the call is dispatched
\*   none            nothing
\*   bad_arguments   item.arguments is not the JSON the handler accepts
\*   handler_raises  the handler raises
\*   error_status    analyze_image returns {"status": "error", ...}
\*   interactive     execute_command refuses the command as interactive
\*   declined        the confirmation prompt of execute_command is declined
execC == FunctionCall("execute_command", "none")
execInteractive == FunctionCall("execute_command", "interactive")
execDeclined == FunctionCall("execute_command", "declined")
fetchC == FunctionCall("fetch_webpage", "none")
fetchBad == FunctionCall("fetch_webpage", "bad_arguments")
fetchRaises == FunctionCall("fetch_webpage", "handler_raises")
imageC == FunctionCall("analyze_image", "none")
imageErr == FunctionCall("analyze_image", "error_status")
genC == FunctionCall("generate_image", "none")
searchI == Plain("web_search_call")
messageI == Plain("message")
reasoningI == Plain("reasoning")

Rep(x, k) == [i \in 1..k |-> x]

\* call_id is unique per call within a response: the item's position
WithIds(s) ==
    [i \in 1..Len(s) |->
        IF s[i].type = "function_call" THEN [s[i] EXCEPT !.call_id = i]
        ELSE s[i]]

Shapes ==
    {Rep(execC, k) : k \in 1..MaxCalls} \cup
    {Rep(fetchC, k) : k \in 1..MaxCalls} \cup
    { <<execC, fetchC>>, <<fetchC, execC>>, <<fetchC, messageI>>,
      <<searchI, fetchC>>, <<messageI>>, <<searchI>>, <<searchI, messageI>>,
      <<reasoningI, messageI>>, <<reasoningI>>, << >>,
      <<imageC>>, <<imageErr>>, <<genC>>, <<fetchBad>>, <<fetchRaises>>,
      <<fetchC, fetchRaises>> }

Responses == {WithIds(s) : s \in Shapes}

\* response.usage: 0 tokens, or 200,000 output tokens (2.00 dollars)
Usage(i, o, c, r) ==
    [input_tokens |-> i, output_tokens |-> o, input_tokens_cached |-> c,
     reasoning_tokens |-> r]
Usages == {Usage(0, 0, 0, 0), Usage(0, 200000, 0, 0)}

----------------------------------------------------------------------------
(* src/main.py                                                             *)

\* a tool definition: its type, and the name of a function tool
ToolDefinition(type, name) == [type |-> type, name |-> name]

\* get_available_tools, lines 58-63, 74-77 and 83: the tools list
tools(ask, bfl) ==
    <<ToolDefinition("web_search", ""),
      ToolDefinition("function", "fetch_webpage"),
      ToolDefinition("function", "analyze_image"),
      ToolDefinition("function", "execute_python")>>
        \o (IF bfl THEN <<ToolDefinition("function", "generate_image"),
                          ToolDefinition("function", "edit_image")>>
            ELSE << >>)
        \o (IF ~ask THEN <<ToolDefinition("function", "execute_command")>>
            ELSE << >>)

\* the handler map with execute_command in it in every mode
get_available_tools_CommandAlways(ask, bfl) ==
    {"fetch_webpage", "analyze_image", "execute_python", "execute_command"}
        \cup (IF bfl THEN {"generate_image", "edit_image"} ELSE {})

\* get_available_tools: the handler map
get_available_tools(ask, bfl) ==
    {"fetch_webpage", "analyze_image", "execute_python"}
        \cup (IF bfl THEN {"generate_image", "edit_image"} ELSE {})
        \cup (IF ~ask THEN {"execute_command"} ELSE {})

\* calculate_cost with the cached tokens refunded instead of charged
calculate_cost_CachedRefunded(usage, model) ==
    IF model \notin DOMAIN MODEL_PRICING THEN 0
    ELSE LET pricing == MODEL_PRICING[model]
         IN  (usage.input_tokens - usage.input_tokens_cached) * pricing.input
             - usage.input_tokens_cached * pricing.cached
             + (usage.output_tokens + usage.reasoning_tokens) * pricing.output

\* calculate_cost with the reasoning tokens left out
calculate_cost_ReasoningFree(usage, model) ==
    IF model \notin DOMAIN MODEL_PRICING THEN 0
    ELSE LET pricing == MODEL_PRICING[model]
         IN  (usage.input_tokens - usage.input_tokens_cached) * pricing.input
             + usage.input_tokens_cached * pricing.cached
             + usage.output_tokens * pricing.output

\* calculate_cost: 0.0 for a model without prices, else the three parts
calculate_cost(usage, model) ==
    IF model \notin DOMAIN MODEL_PRICING THEN 0
    ELSE LET pricing == MODEL_PRICING[model]
             input_cost ==
                 (usage.input_tokens - usage.input_tokens_cached) * pricing.input
             cached_cost == usage.input_tokens_cached * pricing.cached
             output_cost ==
                 (usage.output_tokens + usage.reasoning_tokens) * pricing.output
         IN  input_cost + cached_cost + output_cost

\* the hard cost check left out
CostLimitExceeded_Unchecked(cost) == FALSE

\* line 260: the hard cost check, made after the usage of a response is added
CostLimitExceeded(cost) == cost > MAX_COST_PER_REQUEST

\* the tool-call ceiling check left out
ToolLimitExceeded_Unchecked(count) == FALSE

\* lines 291 and 336: the tool-call ceiling check
ToolLimitExceeded(count) == count > MAX_TOOL_CALLS_PER_REQUEST

\* line 284: a command execution attempted in ask-only mode
BlockedInAskMode(ask, item) == ask /\ item.name = "execute_command"

\* lines 277-363: the scan of response.output from item i on. st holds
\* tool_call_count and the has_* flags; raised is set when line 294 or 339
\* raises, which ends the scan.
RECURSIVE ScanOutput(_, _, _, _)
ScanOutput(ask, items, i, st) ==
    IF i > Len(items) THEN st
    ELSE LET item == items[i]
             counted == [st EXCEPT !.count = st.count + 1]
         IN  IF item.type = "function_call" THEN
                 LET s1 == [counted EXCEPT !.has_function_calls = TRUE]
                 IN  IF BlockedInAskMode(ask, item)
                         THEN ScanOutput(ask, items, i + 1, s1)
                     ELSE IF ToolLimitExceeded(s1.count)
                         THEN [s1 EXCEPT !.raised = TRUE]
                     ELSE ScanOutput(ask, items, i + 1, s1)
             ELSE IF item.type = "web_search_call" THEN
                 LET s1 == [counted EXCEPT !.has_web_search = TRUE]
                 IN  IF ToolLimitExceeded(s1.count)
                         THEN [s1 EXCEPT !.raised = TRUE]
                     ELSE ScanOutput(ask, items, i + 1, s1)
             ELSE IF item.type = "message" THEN
                 ScanOutput(ask, items, i + 1, [st EXCEPT !.has_message = TRUE])
             ELSE ScanOutput(ask, items, i + 1, st)

----------------------------------------------------------------------------
(* src/services/openai_service.py                                          *)

FunctionCallOutput(item, text) ==
    [type |-> "function_call_output", call_id |-> item.call_id,
     output |-> text]
UserImageMessage(item) ==
    [type |-> "user_image_message", call_id |-> item.call_id,
     output |-> "image"]

\* line 93: function_handlers.get(item.name)
HandlerFor(handlers, item) == item.name \in handlers

\* lines 107-178: the entries appended for one call whose handler returned
OutputsFor(item) ==
    IF item.name = "analyze_image" THEN
        IF item.fault = "error_status"
            THEN <<FunctionCallOutput(item, "error")>>
            ELSE <<UserImageMessage(item), FunctionCallOutput(item, "loaded")>>
    ELSE <<FunctionCallOutput(item, "result")>>

\* process_function_calls calling a handler that raised a second time
RECURSIVE process_function_calls_Retrying(_, _, _, _)
process_function_calls_Retrying(items, handlers, i, acc) ==
    IF i > Len(items) THEN acc
    ELSE LET item == items[i]
         IN  IF item.type = "function_call" /\ HandlerFor(handlers, item) THEN
                 IF item.fault = "bad_arguments"
                     THEN [acc EXCEPT !.raised = TRUE]
                 ELSE LET called == [acc EXCEPT
                              !.executed = Append(acc.executed, item.call_id)]
                      IN  IF item.fault = "handler_raises"
                              THEN [called EXCEPT
                                       !.executed = Append(called.executed,
                                                           item.call_id),
                                       !.raised = TRUE]
                          ELSE process_function_calls_Retrying(items, handlers,
                                   i + 1,
                                   [called EXCEPT !.function_outputs =
                                       called.function_outputs \o OutputsFor(item)])
             ELSE process_function_calls_Retrying(items, handlers, i + 1, acc)

\* OpenAIService.process_function_calls, from item i on. acc holds
\* function_outputs, the call_ids whose handler was invoked, and raised: an
\* exception left the method (json.loads at line 96, the handler at 105).
RECURSIVE process_function_calls(_, _, _, _)
process_function_calls(items, handlers, i, acc) ==
    IF i > Len(items) THEN acc
    ELSE LET item == items[i]
         IN  IF item.type = "function_call" /\ HandlerFor(handlers, item) THEN
                 IF item.fault = "bad_arguments"
                     THEN [acc EXCEPT !.raised = TRUE]
                 ELSE LET called == [acc EXCEPT
                              !.executed = Append(acc.executed, item.call_id)]
                      IN  IF item.fault = "handler_raises"
                              THEN [called EXCEPT !.raised = TRUE]
                          ELSE process_function_calls(items, handlers, i + 1,
                                   [called EXCEPT !.function_outputs =
                                       called.function_outputs \o OutputsFor(item)])
             ELSE process_function_calls(items, handlers, i + 1, acc)

----------------------------------------------------------------------------
(* src/services/memory_manager.py                                          *)
(*                                                                         *)
(* The memory dictionary holds conversations, total_conversations and      *)
(* total_cost; last_updated, a time stamp nothing reads, is left out. The  *)
(* file is missing, holds a dictionary ("written"), holds what a failed    *)
(* write left ("corrupt": text that is not JSON), cannot be opened         *)
(* ("unreadable"), or holds bytes that are not UTF-8 ("undecodable").      *)

\* MemoryManager.__init__: the default of max_conversations
DefaultMaxConversations == 50

\* load_memory, lines 34-39 and 47-52: the empty memory
EmptyMemory ==
    [conversations |-> << >>, total_conversations |-> 0, total_cost |-> 0]

MemoryFile(state, content) == [state |-> state, content |-> content]
MissingFile == MemoryFile("missing", EmptyMemory)

\* lines 42-43: the exception that open and json.load raise on the file
ReadError(file) ==
    CASE file.state = "corrupt" -> "JSONDecodeError"
      [] file.state = "unreadable" -> "IOError"
      [] file.state = "undecodable" -> "UnicodeDecodeError"
      [] OTHER -> "none"

\* line 44: except (json.JSONDecodeError, IOError)
LoadCaught == {"JSONDecodeError", "IOError"}

\* load_memory raises: the exception of lines 42-43 is not one it catches
load_raises(file) ==
    ReadError(file) # "none" /\ ReadError(file) \notin LoadCaught

\* load_memory: the file's dictionary, the empty memory when the file is
\* missing or reading it raised an exception that is caught
load_memory(file) ==
    IF file.state = "written" THEN file.content ELSE EmptyMemory

\* save_memory: open(path, 'w') and json.dump. io is what the file system
\* does: the write succeeds; open raises IOError and the file is as before;
\* or the write fails after open truncated the file. IOError is printed as
\* a warning and swallowed.
save_memory(file, mem, io) ==
    CASE io = "written" -> MemoryFile("written", mem)
      [] io = "unopened" -> file
      [] io = "partial" -> MemoryFile("corrupt", EmptyMemory)

\* the slice keeping the first n conversations instead of the last
LastOf_KeepsFirst(s, n) ==
    SubSeq(s, 1, IF n < Len(s) THEN n ELSE Len(s))

\* line 83: s[-n:], the last n entries of s; all of s when n is 0 or s is
\* shorter
LastOf(s, n) ==
    IF n = 0 \/ n >= Len(s) THEN s
    ELSE SubSeq(s, Len(s) - n + 1, Len(s))

\* add_conversation, lines 77-83: the dictionary after the conversation is
\* appended, counted, and the list cut to the limit
add_conversation(mem, conversation, limit) ==
    LET appended == Append(mem.conversations, conversation)
    IN  [conversations |->
             IF Len(appended) > limit THEN LastOf(appended, limit)
             ELSE appended,
         total_conversations |-> mem.total_conversations + 1,
         total_cost |-> mem.total_cost + conversation.cost]

\* add_conversation as a step of the process: the dictionary is updated in
\* place and save_memory writes it out (line 85)
AddConversation(conversation) ==
    /\ memory' = add_conversation(memory, conversation, max_conversations)
    /\ \E io \in {"written", "unopened", "partial"} :
           memory_file' = save_memory(memory_file, memory', io)
    /\ added' = Append(added, conversation)
    /\ UNCHANGED max_conversations

\* main, lines 717 and 724: MemoryManager() and load_memory() with no memory
\* file yet
MemoryStart ==
    /\ max_conversations = DefaultMaxConversations
    /\ memory_file = MissingFile
    /\ memory = load_memory(memory_file)
    /\ added = << >>

----------------------------------------------------------------------------
(* src/services/realtime_service.py, src/services/voice_session.py and     *)
(* src/services/audio_handler.py                                           *)
(*                                                                         *)
(* The transport (websocket-client's run_forever) calls _on_message on its *)
(* own thread, one event after the other; generate_image and edit_image    *)
(* run on background threads; AudioHandler._playback_loop runs on its own  *)
(* thread; the main thread runs VoiceSession.run and stop.                 *)

\* UsageStats, lines 20-28
UsageStats(i, o, c, ai, ao, cost, n) ==
    [input_tokens |-> i, output_tokens |-> o, cached_tokens |-> c,
     input_audio_tokens |-> ai, output_audio_tokens |-> ao,
     total_cost |-> cost, response_count |-> n]

\* event["response"]["usage"]: the totals and their details
UsageReport(i, o, c, ai, ti, ao, to) ==
    [input_tokens |-> i, output_tokens |-> o, cached_tokens |-> c,
     audio_input |-> ai, text_input |-> ti, audio_output |-> ao,
     text_output |-> to]

\* the usage of a response.done event: << >> when the event has none; one
\* with the details; one with the totals only; one of a long exchange
UsageReports ==
    {<< >>, <<UsageReport(10, 20, 2, 6, 4, 15, 5)>>,
     <<UsageReport(7, 3, 0, 0, 0, 0, 0)>>,
     <<UsageReport(70000, 1000, 0, 70000, 0, 1000, 0)>>}

Max(a, b) == IF a > b THEN a ELSE b

\* lines 364-386: what one report adds to each counter
Increments(u) ==
    UsageStats(IF u.text_input # 0 THEN u.text_input
               ELSE Max(0, u.input_tokens - u.audio_input),
               IF u.text_output # 0 THEN u.text_output
               ELSE Max(0, u.output_tokens - u.audio_output),
               u.cached_tokens, u.audio_input, u.audio_output, 0, 1)

VoiceEvent(type, role, text, report, name) ==
    [type |-> type, role |-> role, text |-> text, report |-> report,
     name |-> name]
NoEvent == VoiceEvent("none", "none", "none", << >>, "none")

\* events of a conversation: a transcript of the user's or the assistant's
\* speech, a response.done
VoiceEvents ==
    {VoiceEvent("transcript", "user", t, << >>, "none") :
        t \in {"hello", "goodbye"}}
    \cup {VoiceEvent("transcript", "assistant", "hello", << >>, "none")}
    \cup {VoiceEvent("response.done", "none", "none", r, "none") :
             r \in UsageReports}

\* response.function_call_arguments.done events: tools that are offered,
\* execute_command (not offered in ask mode), and a name nothing handles
ToolEvents ==
    {VoiceEvent("function_call", "none", "none", << >>, n) :
        n \in {"fetch_webpage", "generate_image", "edit_image",
               "execute_command", "frobnicate"}}

\* response.output_audio.delta and input_audio_buffer.speech_started
AudioEvents ==
    {VoiceEvent("audio.delta", "none", "none", << >>, "none"),
     VoiceEvent("speech_started", "none", "none", << >>, "none")}

\* line 416
long_running_tools_None == {}
long_running_tools == {"generate_image", "edit_image"}

\* _execute_tool, lines 444-460: the names it dispatches on
VoiceTools ==
    {"web_search", "fetch_webpage", "execute_python", "analyze_image",
     "generate_image", "edit_image", "execute_command"}

\* _execute_tool, lines 443-464: whether the tool's function is called
ToolCalled_IgnoringAskMode(name, ask) == name \in VoiceTools
ToolCalled(name, ask) ==
    name \in VoiceTools /\ ~(name = "execute_command" /\ ask)

\* _execute_tool, lines 443-464: the kind of string it returns: what the
\* tool returned, "Error executing ..." when it raised, "Command execution
\* is disabled in ask-only mode.", "Unknown function: ..."
ToolOutput(name, ask, raises) ==
    IF name \notin VoiceTools THEN "unknown"
    ELSE IF ~ToolCalled(name, ask) THEN "disabled"
    ELSE IF raises THEN "error"
    ELSE "result"

\* an event given to _send_event
SentEvent(type, call_id, output) ==
    [type |-> type, call_id |-> call_id, output |-> output]

\* a read or a write of state shared between the threads, and whether the
\* thread held _display_lock
Access(thread, var, op) ==
    [thread |-> thread, var |-> var, op |-> op,
     locked |-> (display_lock = thread)]

NothingRead == [messages |-> -1, response_count |-> -1, input_tokens |-> -1]

\* VoiceSession.__init__, RealtimeService.__init__ and
\* AudioHandler.__init__: no session is running
VoiceIdle ==
    /\ cb = "idle"
    /\ event = NoEvent
    /\ handled = 0
    /\ realtime_usage = UsageStats(0, 0, 0, 0, 0, 0, 0)
    /\ reported = << >>
    /\ display_lock = "free"
    /\ conversation_history = << >>
    /\ current_text = [user |-> "", assistant |-> ""]
    /\ last_usage = FALSE
    /\ running = FALSE
    /\ connected = FALSE
    /\ cost_limit_reached = FALSE
    /\ cost_warning_shown = FALSE
    /\ warnings = 0
    /\ tool_runs = {}
    /\ calls = << >>
    /\ sent = << >>
    /\ invoked = << >>
    /\ audio_output_queue = << >>
    /\ output_queue = << >>
    /\ is_playing = FALSE
    /\ timeline = << >>
    /\ mn = "idle"
    /\ summary = NothingRead
    /\ stops = 0
    /\ signalled = FALSE
    /\ accesses = {}

----------------------------------------------------------------------------
(* src/services/cache_manager.py                                           *)

\* the keys given to get and set
CacheKeys == {"url1", "url2"}

\* self.ttl, seconds (3600 and 300 in the two instances, lines 131-134)
CacheTtl == 2
\* time.time() returns 0..MaxClock
MaxClock == 4
\* the largest number of calls of set
MaxSets == 2

\* set, lines 83-86: the value and the time of the set that stored it
CacheEntry(timestamp, value) == [timestamp |-> timestamp, value |-> value]
\* a cache file that json.load cannot read
CorruptEntry == CacheEntry(-1, 0)

\* get, line 46: the in-memory entry is still good
MemoryFresh(age, ttl) == age < ttl
\* get, line 62: the entry read from disk is expired
DiskExpired(age, ttl) == age > ttl

\* what get returns: a value and the age of its entry at that time, or None
CacheHit(key, entry, at) ==
    [key |-> key, value |-> <<entry.value>>, age |-> at - entry.timestamp]
CacheMiss(key) == [key |-> key, value |-> << >>, age |-> 0]

\* CacheManager.__init__, lines 19-24, with an empty cache directory
CacheIdle ==
    /\ now = 0
    /\ memory_cache = [k \in CacheKeys |-> << >>]
    /\ disk_cache = [k \in CacheKeys |-> << >>]
    /\ cg = << >>
    /\ got = CacheMiss("none")
    /\ sets = 0

\* time passes, or the system clock is set
Tick ==
    /\ \E t \in 0..MaxClock : t # now /\ now' = t
    /\ UNCHANGED <<memory_cache, disk_cache, cg, got, sets, loopVars,
                   cmdVars, memVars, verdicts, quote, voiceVars>>

\* set, lines 75-98: the entry is stored in memory and written to the
\* key's file; a failed write leaves the file as it was, or cut short
CacheSet ==
    /\ cg = << >>
    /\ sets < MaxSets
    /\ \E key \in CacheKeys, io \in {"written", "unopened", "partial"} :
        LET entry == CacheEntry(now, sets + 1)
        IN  /\ memory_cache' = [memory_cache EXCEPT ![key] = <<entry>>]
            /\ disk_cache' =
                   CASE io = "written" ->
                            [disk_cache EXCEPT ![key] = <<entry>>]
                     [] io = "partial" ->
                            [disk_cache EXCEPT ![key] = <<CorruptEntry>>]
                     [] OTHER -> disk_cache
    /\ sets' = sets + 1
    /\ UNCHANGED <<now, cg, got, loopVars, cmdVars, memVars, verdicts, quote,
                   voiceVars>>

\* get, lines 44-50: a good in-memory entry is returned; an expired one is
\* removed and the disk is looked up next
GetMemory ==
    /\ cg = << >>
    /\ \E key \in CacheKeys :
        IF memory_cache[key] # << >>
              /\ MemoryFresh(now - memory_cache[key][1].timestamp, CacheTtl)
            THEN /\ got' = CacheHit(key, memory_cache[key][1], now)
                 /\ UNCHANGED <<memory_cache, cg>>
        ELSE /\ memory_cache' = [memory_cache EXCEPT ![key] = << >>]
             /\ cg' = <<key>>
             /\ UNCHANGED got
    /\ UNCHANGED <<now, disk_cache, sets, loopVars, cmdVars, memVars,
                   verdicts, quote, voiceVars>>

\* get, lines 53-73: no file, or one that cannot be read, gives None; an
\* expired entry is deleted and gives None; any other is put in memory and
\* returned
GetDisk ==
    /\ cg # << >>
    /\ LET key == cg[1]
           file == disk_cache[key]
       IN  IF file = << >> \/ file = <<CorruptEntry>>
               THEN /\ got' = CacheMiss(key)
                    /\ UNCHANGED <<memory_cache, disk_cache>>
           ELSE IF DiskExpired(now - file[1].timestamp, CacheTtl)
               THEN /\ disk_cache' = [disk_cache EXCEPT ![key] = << >>]
                    /\ got' = CacheMiss(key)
                    /\ UNCHANGED memory_cache
           ELSE /\ memory_cache' = [memory_cache EXCEPT ![key] = file]
                /\ got' = CacheHit(key, file[1], now)
                /\ UNCHANGED disk_cache
    /\ cg' = << >>
    /\ UNCHANGED <<now, sets, loopVars, cmdVars, memVars, verdicts, quote,
                   voiceVars>>

\* classify_command_risk and calculate_cost have not been called on their
\* own, no voice session is running and nothing is cached
AuxIdle ==
    /\ VoiceIdle
    /\ CacheIdle
    /\ verdicts = << >>
    /\ quote = [usage |-> [input_tokens |-> 0, output_tokens |-> 0,
                            input_tokens_cached |-> 0, reasoning_tokens |-> 0],
                model |-> DEFAULT_MODEL, cost |-> 0, priced |-> FALSE]

----------------------------------------------------------------------------
(* process_question as a state machine                                     *)

NoOutcome == [kind |-> "none", reason |-> "none", final_response |-> "none",
              max_iterations_warning |-> FALSE]

\* line 443: response.output_text, the text of the message items
OutputText(items) ==
    IF \E i \in 1..Len(items) : items[i].type = "message"
        THEN "text" ELSE "empty"

ZeroTotals == Usage(0, 0, 0, 0)
AddUsage(t, u) ==
    Usage(t.input_tokens + u.input_tokens,
          t.output_tokens + u.output_tokens,
          t.input_tokens_cached + u.input_tokens_cached,
          t.reasoning_tokens + u.reasoning_tokens)

Raise(reason) ==
    /\ pc' = "Aborted"
    /\ outcome' = [kind |-> "exception", reason |-> reason,
                   final_response |-> "none",
                   max_iterations_warning |-> FALSE]

\* the while condition with the iteration count not looked at
WhileCondition_Always(it) == TRUE

\* line 232: while iteration < MAX_ITERATIONS
WhileCondition(it) == it < MAX_ITERATIONS

\* the transcript with the entries put at its front instead of its end
Extend_Prepending(list, items) == items \o list

\* lines 269 and 420: input_list += items, input_list.extend(items)
Extend(list, items) == list \o items

\* lines 232-269: one more turn of the while loop: the model call, the usage
\* and the cost check, and the response's output appended to the transcript.
\* The endpoint answers with one of responses and one of usages; earlier is
\* what the model keeps of the transcript sent.
CallModelWith(responses, usages, earlier) ==
    /\ pc = "AwaitingModel"
    /\ WhileCondition(iteration)
    /\ \E r \in responses, u \in usages :
        LET cost == total_cost + calculate_cost(u, DEFAULT_MODEL)
        IN  /\ iteration' = iteration + 1
            /\ response' = r
            /\ totals' = AddUsage(totals, u)
            /\ total_cost' = cost
            /\ executed' = << >>
            /\ has_function_calls' = FALSE
            /\ has_web_search' = FALSE
            /\ has_message' = FALSE
            /\ IF CostLimitExceeded(cost)
                   THEN /\ Raise("cost")
                        /\ UNCHANGED input_list
                   ELSE /\ pc' = "InspectingOutput"
                        /\ input_list' = Extend(earlier, r)
                        /\ UNCHANGED outcome
    /\ UNCHANGED <<ask_mode, bfl_key, tool_call_count, reportVars,
                   cmdVars, memVars, auxVars>>

\* the model call with the transcript cut to the entries appended since the
\* last call: the loop reads no older one
CallModel == CallModelWith(Responses, Usages, << >>)

\* lines 232, 434: the while condition fails: the loop is left
LeaveLoop ==
    /\ pc = "AwaitingModel"
    /\ ~WhileCondition(iteration)
    /\ pc' = "Returning"
    /\ UNCHANGED <<ask_mode, bfl_key, iteration, tool_call_count, totals,
                   total_cost, response, input_list, has_function_calls,
                   has_web_search, has_message, executed, outcome, reportVars,
                   cmdVars, memVars, auxVars>>

\* the choice of the next step with the message looked at first
AfterInspection_MessageFirst(st) ==
    IF st.has_message THEN "Returning"
    ELSE IF st.has_function_calls THEN "DispatchingTools"
    ELSE IF st.has_web_search THEN "AwaitingModel"
    ELSE "Returning"

\* the choice of the next step with the loop continued when the response
\* holds nothing
AfterInspection_AnomalyRetries(st) ==
    IF st.has_function_calls THEN "DispatchingTools"
    ELSE IF st.has_web_search /\ ~st.has_message THEN "AwaitingModel"
    ELSE IF st.has_message THEN "Returning"
    ELSE "AwaitingModel"

\* lines 366, 424-425 and 428-432: the next step after the scan: the tools
\* are processed; or the loop continues; or it is left by a break
AfterInspection(st) ==
    IF st.has_function_calls THEN "DispatchingTools"
    ELSE IF st.has_web_search /\ ~st.has_message THEN "AwaitingModel"
    ELSE IF st.has_message THEN "Returning"
    ELSE "Returning"

\* lines 271-363 and 365-366, 423-432: the scan of the output items and the
\* choice of the next step
InspectOutput ==
    /\ pc = "InspectingOutput"
    /\ LET st == ScanOutput(ask_mode, response, 1,
                     [count |-> tool_call_count, has_function_calls |-> FALSE,
                      has_web_search |-> FALSE, has_message |-> FALSE,
                      raised |-> FALSE])
       IN  /\ tool_call_count' = st.count
           /\ has_function_calls' = st.has_function_calls
           /\ has_web_search' = st.has_web_search
           /\ has_message' = st.has_message
           /\ IF st.raised THEN Raise("tool_calls")
              ELSE /\ pc' = AfterInspection(st)
                   /\ UNCHANGED outcome
    /\ UNCHANGED <<ask_mode, bfl_key, iteration, totals, total_cost, response,
                   input_list, executed, reportVars,
                   cmdVars, memVars, auxVars>>

\* json.loads(item.arguments)["command"]: the command a call asks for
CommandOf(item) ==
    CASE item.fault = "interactive" -> "vim notes.txt"
      [] item.fault = "declined" -> "rm -rf build"
      [] OTHER -> "ls"

\* lines 368-378: the commands of the response's execute_command calls
CapturedCommands(items) ==
    {CommandOf(items[i]) :
        i \in {k \in 1..Len(items) : /\ items[k].type = "function_call"
                                     /\ items[k].name = "execute_command"}}

\* terminal.py, lines 267-290: of the calls whose handler was invoked, the
\* commands that were neither refused as interactive nor declined at the
\* prompt, and so reached subprocess.Popen
SpawnedCommands(items, invoked_ids) ==
    {CommandOf(items[i]) :
        i \in {k \in 1..Len(items) :
                  /\ items[k].type = "function_call"
                  /\ items[k].name = "execute_command"
                  /\ items[k].fault = "none"
                  /\ \E j \in 1..Len(invoked_ids) :
                         invoked_ids[j] = items[k].call_id}}

\* lines 366-421: the commands of the response are noted as executed, the
\* tool calls of the response are processed and their outputs appended to
\* the transcript
DispatchTools ==
    /\ pc = "DispatchingTools"
    /\ executed_commands' = executed_commands \cup CapturedCommands(response)
    /\ LET acc == process_function_calls(response,
                      get_available_tools(ask_mode, bfl_key), 1,
                      [function_outputs |-> << >>, executed |-> << >>,
                       raised |-> FALSE])
       IN  /\ executed' = acc.executed
           /\ spawned_commands' =
                  spawned_commands \cup SpawnedCommands(response, acc.executed)
           /\ IF acc.raised
                  THEN /\ Raise("tool_exception")
                       /\ UNCHANGED input_list
                  ELSE /\ input_list' = Extend(input_list, acc.function_outputs)
                       /\ pc' = "AwaitingModel"
                       /\ UNCHANGED outcome
    /\ UNCHANGED <<ask_mode, bfl_key, iteration, tool_call_count, totals,
                   total_cost, response, has_function_calls, has_web_search,
                   has_message, cmdVars, memVars, auxVars>>

\* lines 434-533: after the loop: the warning, the final response, the
\* conversation data returned to the caller
ReturnAnswer ==
    /\ pc = "Returning"
    /\ pc' = "Done"
    /\ outcome' = [kind |-> "returned", reason |-> "none",
                   final_response |-> OutputText(response),
                   max_iterations_warning |-> (iteration >= MAX_ITERATIONS)]
    /\ UNCHANGED <<ask_mode, bfl_key, iteration, tool_call_count, totals,
                   total_cost, response, input_list, has_function_calls,
                   has_web_search, has_message, executed, reportVars,
                   cmdVars, memVars, auxVars>>

\* execute_command is not running
CmdIdle ==
    /\ xpc = "idle"
    /\ command = << >>
    /\ working_dir_ok = TRUE
    /\ requested_timeout = << >>
    /\ timeout = 0
    /\ risk = [level |-> "none", reason |-> "none"]
    /\ prompted = FALSE
    /\ answer = "none"
    /\ spawned = FALSE
    /\ alive = FALSE
    /\ wait_ended = "none"
    /\ signals = << >>
    /\ result = "none"

\* lines 218-230: the state of process_question before the loop
LoopStart ==
    /\ pc = "AwaitingModel"
    /\ iteration = 0
    /\ tool_call_count = 0
    /\ totals = ZeroTotals
    /\ total_cost = 0
    /\ response = << >>
    /\ input_list = << >>
    /\ has_function_calls = FALSE
    /\ has_web_search = FALSE
    /\ has_message = FALSE
    /\ executed = << >>
    /\ outcome = NoOutcome
    /\ executed_commands = {}
    /\ spawned_commands = {}

Init ==
    /\ ask_mode \in BOOLEAN
    /\ bfl_key \in BOOLEAN
    /\ LoopStart
    /\ CmdIdle
    /\ MemoryStart
    /\ AuxIdle

Next ==
    \/ CallModel
    \/ LeaveLoop
    \/ InspectOutput
    \/ DispatchTools
    \/ ReturnAnswer

Spec == Init /\ [][Next]_vars

\* process_question is sequential code: under the assumption that every
\* model call and every tool handler returns, a step that can be taken is
\* taken
SpecLive == Spec /\ WF_vars(Next)

----------------------------------------------------------------------------
(* process_question with the whole transcript kept                         *)

\* lines 207-216: the transcript before the loop: the system prompt and the
\* question (no conversation in the memory)
InitialTranscript == <<Plain("system"), Plain("user")>>

\* the responses of an endpoint that asks for two tools at once, searches,
\* answers, or asks for a tool that fails
TranscriptResponses ==
    {WithIds(s) : s \in {<<fetchC, imageC>>, <<searchI>>, <<messageI>>,
                         <<fetchRaises>>}}

\* the model call with every entry of the transcript kept
CallModelKeeping == CallModelWith(TranscriptResponses, Usages, input_list)

InitTranscript ==
    /\ ask_mode \in BOOLEAN
    /\ bfl_key = FALSE
    /\ pc = "AwaitingModel"
    /\ iteration = 0
    /\ tool_call_count = 0
    /\ totals = ZeroTotals
    /\ total_cost = 0
    /\ response = << >>
    /\ input_list = InitialTranscript
    /\ has_function_calls = FALSE
    /\ has_web_search = FALSE
    /\ has_message = FALSE
    /\ executed = << >>
    /\ outcome = NoOutcome
    /\ executed_commands = {}
    /\ spawned_commands = {}
    /\ CmdIdle
    /\ MemoryStart
    /\ AuxIdle

NextTranscript ==
    \/ CallModelKeeping
    \/ LeaveLoop
    \/ InspectOutput
    \/ DispatchTools
    \/ ReturnAnswer

SpecTranscript == InitTranscript /\ [][NextTranscript]_vars

----------------------------------------------------------------------------
(* process_question asked to run commands                                  *)

\* the responses of an endpoint that asks for commands: one that runs, one
\* that is interactive, one the user declines, two at once, and an answer
CommandResponses ==
    {WithIds(s) : s \in {<<execC>>, <<execInteractive>>, <<execDeclined>>,
                         <<execC, execDeclined>>, <<fetchC, execC>>,
                         <<messageI>>}}

\* the model call of a request that is about commands
CallModelForCommands == CallModelWith(CommandResponses, Usages, << >>)

NextCommands ==
    \/ CallModelForCommands
    \/ LeaveLoop
    \/ InspectOutput
    \/ DispatchTools
    \/ ReturnAnswer

SpecCommands == Init /\ [][NextCommands]_vars

----------------------------------------------------------------------------
(* main: one request of a session                                          *)
(*                                                                         *)
(* Every request is a run of the program; what earlier requests leave to   *)
(* it is the memory file.                                                  *)

\* lines 518-533: the conversation data process_question returns
ConversationData ==
    [question |-> "question", response |-> outcome.final_response,
     cost |-> total_cost]

\* an earlier conversation: an answer that cost 2.00 dollars
EarlierConversation ==
    [question |-> "earlier question", response |-> "text",
     cost |-> MAX_COST_PER_REQUEST]

\* the memory file a request finds: none; one conversation, left by an
\* earlier request; or a file that cannot be read
EarlierFiles ==
    {MissingFile,
     MemoryFile("written", add_conversation(EmptyMemory, EarlierConversation,
                                            DefaultMaxConversations)),
     MemoryFile("corrupt", EmptyMemory),
     MemoryFile("unreadable", EmptyMemory),
     MemoryFile("undecodable", EmptyMemory)}

\* line 744: process_question returned and the conversation is added to the
\* memory
SaveConversation ==
    /\ pc = "Done"
    /\ pc' = "Saved"
    /\ AddConversation(ConversationData)
    /\ UNCHANGED <<ask_mode, bfl_key, iteration, tool_call_count, totals,
                   total_cost, response, input_list, has_function_calls,
                   has_web_search, has_message, executed, outcome, reportVars,
                   cmdVars,
                   auxVars>>

\* lines 746-749: an exception left process_question: the error is shown
\* and the program exits with status 1
ExitOnException ==
    /\ pc = "Aborted"
    /\ pc' = "Exited"
    /\ UNCHANGED <<ask_mode, bfl_key, iteration, tool_call_count, totals,
                   total_cost, response, input_list, has_function_calls,
                   has_web_search, has_message, executed, outcome, reportVars,
                   cmdVars,
                   memVars, auxVars>>

\* line 724, outside main's try: load_memory raised, and the program ends
\* with the traceback before process_question is called
CrashAtLoad ==
    /\ pc = "Crashed"
    /\ iteration = 0
    /\ tool_call_count = 0
    /\ totals = ZeroTotals
    /\ total_cost = 0
    /\ response = << >>
    /\ input_list = << >>
    /\ has_function_calls = FALSE
    /\ has_web_search = FALSE
    /\ has_message = FALSE
    /\ executed = << >>
    /\ executed_commands = {}
    /\ spawned_commands = {}
    /\ outcome = [kind |-> "exception", reason |-> "load_memory",
                  final_response |-> "none",
                  max_iterations_warning |-> FALSE]

\* lines 717-741: the memory is loaded and process_question starts
InitSession ==
    /\ ask_mode \in BOOLEAN
    /\ bfl_key \in BOOLEAN
    /\ CmdIdle
    /\ AuxIdle
    /\ max_conversations = DefaultMaxConversations
    /\ memory_file \in EarlierFiles
    /\ memory = load_memory(memory_file)
    /\ added = << >>
    /\ IF load_raises(memory_file) THEN CrashAtLoad ELSE LoopStart

NextSession ==
    \/ CallModel
    \/ LeaveLoop
    \/ InspectOutput
    \/ DispatchTools
    \/ ReturnAnswer
    \/ SaveConversation
    \/ ExitOnException

SpecSession == InitSession /\ [][NextSession]_vars

----------------------------------------------------------------------------
(* MemoryManager.add_conversation, called again and again on one memory    *)

\* the largest max_conversations a manager is made with
MaxLimit == 3
\* the largest number of add_conversation calls
MaxAdded == 5

\* the cost of a conversation: nothing, or 5 units
ConversationCosts == {0, 5}

AddAnother ==
    /\ Len(added) < MaxAdded
    /\ \E c \in ConversationCosts :
           AddConversation([question |-> Len(added) + 1, response |-> "text",
                            cost |-> c])
    /\ UNCHANGED <<loopVars, cmdVars, auxVars>>

InitMemory ==
    /\ ask_mode = FALSE
    /\ bfl_key = FALSE
    /\ LoopStart
    /\ CmdIdle
    /\ AuxIdle
    /\ max_conversations \in 1..MaxLimit
    /\ memory_file = MissingFile
    /\ memory = load_memory(memory_file)
    /\ added = << >>

SpecMemory == InitMemory /\ [][AddAnother]_vars

----------------------------------------------------------------------------
(* calculate_cost, called on any usage and model                           *)

\* the token counts of a usage: 0..MaxTokens, and 50,000
MaxTokens == 2
TokenCounts == 0..MaxTokens \cup {50000}

\* the model names: those of MODEL_PRICING, and one that has no prices
ModelNames == PricedModels \cup {"gpt-4o"}

\* calculate_cost(usage, model) is called and returns
PriceUsage ==
    /\ ~quote.priced
    /\ quote' = [quote EXCEPT !.cost = calculate_cost(quote.usage, quote.model),
                              !.priced = TRUE]
    /\ UNCHANGED <<loopVars, cmdVars, memVars, verdicts, voiceVars,
                   cacheVars>>

InitCost ==
    /\ ask_mode = FALSE
    /\ bfl_key = FALSE
    /\ LoopStart
    /\ CmdIdle
    /\ MemoryStart
    /\ verdicts = << >>
    /\ VoiceIdle
    /\ CacheIdle
    /\ \E i, o, c, r \in TokenCounts, m \in ModelNames :
           quote = [usage |-> Usage(i, o, c, r), model |-> m, cost |-> 0,
                    priced |-> FALSE]

SpecCost == InitCost /\ [][PriceUsage]_vars

----------------------------------------------------------------------------
(* A cache in use: calls of set and get at any times                       *)

InitCache ==
    /\ ask_mode = FALSE
    /\ bfl_key = FALSE
    /\ LoopStart
    /\ CmdIdle
    /\ MemoryStart
    /\ AuxIdle

NextCache ==
    \/ Tick
    \/ CacheSet
    \/ GetMemory
    \/ GetDisk

SpecCache == InitCache /\ [][NextCache]_vars

----------------------------------------------------------------------------
(* A voice session: the callback thread, the tool threads, the playback    *)
(* thread, the main thread                                                 *)

\* the largest number of events the transport delivers in a conversation
MaxEvents == 3
\* the largest number of function calls the transport delivers
MaxToolCalls == 2

\* a call of _execute_tool and _send_function_result under way, inline on
\* the callback thread or on a background thread
ToolRun(call_id, name, inline, at, output) ==
    [call_id |-> call_id, name |-> name, inline |-> inline, at |-> at,
     output |-> output]

\* _on_message, lines 259-350: the transport delivers the next event, one
\* of `events`, at most `most` of them. A transcript goes to
\* on_transcript; a response.done goes to
\* _process_usage, which does nothing for an event without usage; a
\* function call (_handle_function_call, lines 391-429) is run inline, or
\* on a background thread if long-running; an audio delta is put on
\* audio_output_queue and, by _on_audio_delta and play_audio, on the
\* playback queue; speech_started sends response.cancel and empties
\* audio_output_queue (on_interrupted is never set, so nothing else)
ReceiveOf(events, most) ==
    /\ cb = "idle"
    /\ connected
    /\ handled < most
    /\ \E ev \in events :
        LET n == handled + 1
            inline == ev.name \notin long_running_tools
        IN
        /\ handled' = n
        /\ event' = IF ev.type \in {"transcript", "response.done"} THEN ev
                    ELSE NoEvent
        /\ cb' = CASE ev.type = "transcript" -> "on_transcript"
                   [] ev.type = "response.done" ->
                          IF ev.report = << >> THEN "on_response_done"
                          ELSE "update_tokens"
                   [] ev.type = "function_call" ->
                          IF inline THEN "in_tool" ELSE "idle"
                   [] OTHER -> "idle"
        /\ reported' = IF ev.type = "response.done" /\ ev.report # << >>
                           THEN Append(reported, Increments(ev.report[1]))
                       ELSE reported
        /\ calls' = IF ev.type = "function_call"
                        THEN Append(calls, [call_id |-> n, name |-> ev.name])
                    ELSE calls
        /\ tool_runs' = IF ev.type = "function_call"
                            THEN tool_runs \cup
                                 {ToolRun(n, ev.name, inline, "execute",
                                          "none")}
                        ELSE tool_runs
        /\ sent' = IF ev.type = "speech_started"
                       THEN Append(sent, SentEvent("response.cancel", 0,
                                                   "none"))
                   ELSE sent
        /\ audio_output_queue' =
               CASE ev.type = "audio.delta" -> Append(audio_output_queue, n)
                 [] ev.type = "speech_started" -> << >>
                 [] OTHER -> audio_output_queue
        /\ output_queue' = IF ev.type = "audio.delta"
                               THEN Append(output_queue, n)
                           ELSE output_queue
        /\ timeline' = IF ev.type = "speech_started"
                           THEN Append(timeline,
                                       [what |-> "speech_started", at |-> n])
                       ELSE timeline
    /\ UNCHANGED <<realtime_usage, last_usage, cost_limit_reached,
                   cost_warning_shown, warnings, textVars, invoked,
                   is_playing, mainVars, running, connected, accesses,
                   memVars, restVars>>

\* the events of a conversation
Receive == ReceiveOf(VoiceEvents, MaxEvents)

\* function calls
ReceiveToolCall == ReceiveOf(ToolEvents, MaxToolCalls)

\* audio and barge-in
ReceiveAudio == ReceiveOf(AudioEvents, MaxEvents)

\* _on_close, lines 492-495: the transport closed the connection
OnClose ==
    /\ cb = "idle"
    /\ connected
    /\ connected' = FALSE
    /\ UNCHANGED <<cb, event, handled, running, accesses, usageVars,
                   textVars, toolVars, audioVars, mainVars, memVars,
                   restVars>>

\* _on_transcript, line 72: with self._display_lock
AcquireDisplayLock ==
    /\ cb = "on_transcript"
    /\ display_lock = "free"
    /\ display_lock' = "callback"
    /\ cb' = "in_transcript"
    /\ UNCHANGED <<event, handled, running, connected, accesses, usageVars,
                   conversation_history, current_text, toolVars, audioVars,
                   mainVars, memVars, restVars>>

\* _on_transcript, lines 73-88: the text is kept and appended to the
\* history, and the lock is released
WriteTranscript ==
    /\ cb = "in_transcript"
    /\ current_text' = [current_text EXCEPT ![event.role] = event.text]
    /\ conversation_history' =
           Append(conversation_history,
                  [role |-> event.role, content |-> event.text])
    /\ accesses' = accesses \cup
           {Access("callback", "current_text", "write"),
            Access("callback", "conversation_history", "write")}
    /\ display_lock' = "free"
    /\ cb' = "idle"
    /\ event' = NoEvent
    /\ UNCHANGED <<handled, running, connected, usageVars, toolVars,
                   audioVars, mainVars, memVars, restVars>>

\* _process_usage, lines 381-385: the token counters
UpdateTokens ==
    /\ cb = "update_tokens"
    /\ LET inc == Increments(event.report[1])
       IN  realtime_usage' =
               [realtime_usage EXCEPT
                   !.input_tokens = @ + inc.input_tokens,
                   !.output_tokens = @ + inc.output_tokens,
                   !.cached_tokens = @ + inc.cached_tokens,
                   !.input_audio_tokens = @ + inc.input_audio_tokens,
                   !.output_audio_tokens = @ + inc.output_audio_tokens]
    /\ accesses' = accesses \cup {Access("callback", "usage", "write")}
    /\ cb' = "count_response"
    /\ UNCHANGED <<event, handled, running, connected, reported, last_usage,
                   cost_limit_reached, cost_warning_shown, warnings,
                   textVars, toolVars, audioVars, mainVars, memVars,
                   restVars>>

\* _process_usage, line 386
CountResponse ==
    /\ cb = "count_response"
    /\ realtime_usage' = [realtime_usage EXCEPT !.response_count = @ + 1]
    /\ accesses' = accesses \cup {Access("callback", "usage", "write")}
    /\ cb' = "calculate_cost"
    /\ UNCHANGED <<event, handled, running, connected, reported, last_usage,
                   cost_limit_reached, cost_warning_shown, warnings,
                   textVars, toolVars, audioVars, mainVars, memVars,
                   restVars>>

\* _process_usage, line 389: UsageStats.calculate_cost imports
\* REALTIME_PRICING from config.settings (line 32), which defines none: the
\* ImportError leaves _process_usage, _on_message prints it (line 354) and
\* on_response_done is not called
CalculateCost ==
    /\ cb = "calculate_cost"
    /\ cb' = "idle"
    /\ event' = NoEvent
    /\ UNCHANGED <<handled, running, connected, accesses, usageVars,
                   textVars, toolVars, audioVars, mainVars, memVars,
                   restVars>>

\* _on_message, lines 316-317, and VoiceSession._on_response_done, lines
\* 104-160: the usage object is kept and shown, and _check_cost_limits
\* compares its cost with the hard limit, then with the warning threshold
OnResponseDone ==
    /\ cb = "on_response_done"
    /\ last_usage' = TRUE
    /\ accesses' = accesses \cup {Access("callback", "usage", "read")}
    /\ LET cost == realtime_usage.total_cost
       IN  IF cost >= MAX_COST_PER_REQUEST
               THEN /\ cost_limit_reached' = TRUE
                    /\ running' = FALSE
                    /\ UNCHANGED <<cost_warning_shown, warnings>>
           ELSE IF cost >= COST_WARNING_THRESHOLD /\ ~cost_warning_shown
               THEN /\ cost_warning_shown' = TRUE
                    /\ warnings' = warnings + 1
                    /\ UNCHANGED <<cost_limit_reached, running>>
           ELSE UNCHANGED <<cost_limit_reached, running, cost_warning_shown,
                            warnings>>
    /\ cb' = "idle"
    /\ event' = NoEvent
    /\ UNCHANGED <<handled, connected, realtime_usage, reported, textVars,
                   toolVars, audioVars, mainVars, memVars, restVars>>

\* _execute_tool, lines 431-464, inline (line 428) or on a background
\* thread (line 468): the tool's function is called, unless the name is
\* unknown or it is execute_command in ask mode; what it raises is caught
ExecuteTool ==
    /\ \E r \in tool_runs :
       \E raises \in IF ToolCalled(r.name, ask_mode) THEN BOOLEAN
                      ELSE {FALSE} :
        /\ r.at = "execute"
        /\ tool_runs' = (tool_runs \ {r}) \cup
               {ToolRun(r.call_id, r.name, r.inline, "send_output",
                        ToolOutput(r.name, ask_mode, raises))}
        /\ invoked' = IF ToolCalled(r.name, ask_mode)
                          THEN Append(invoked, [call_id |-> r.call_id,
                                                name |-> r.name])
                      ELSE invoked
    /\ UNCHANGED <<cb, event, handled, running, connected, accesses,
                   usageVars, textVars, calls, sent, audioVars, mainVars,
                   memVars, restVars>>

\* _send_function_result, lines 473-481, and _send_event, lines 497-500:
\* the function_call_output is sent if the connection is open
SendFunctionResult ==
    /\ \E r \in tool_runs :
        /\ r.at = "send_output"
        /\ tool_runs' = (tool_runs \ {r}) \cup
               {ToolRun(r.call_id, r.name, r.inline, "send_create",
                        r.output)}
        /\ sent' = IF connected
                       THEN Append(sent, SentEvent("function_call_output",
                                                   r.call_id, r.output))
                   ELSE sent
    /\ UNCHANGED <<cb, event, handled, running, connected, accesses,
                   usageVars, textVars, calls, invoked, audioVars, mainVars,
                   memVars, restVars>>

\* _send_function_result, line 484: response.create is sent if the
\* connection is open; an inline call gives the callback thread back to
\* the transport
TriggerResponse ==
    /\ \E r \in tool_runs :
        /\ r.at = "send_create"
        /\ tool_runs' = tool_runs \ {r}
        /\ sent' = IF connected
                       THEN Append(sent, SentEvent("response.create", 0,
                                                   "none"))
                   ELSE sent
        /\ cb' = IF r.inline THEN "idle" ELSE cb
    /\ UNCHANGED <<event, handled, running, connected, accesses, usageVars,
                   textVars, calls, invoked, audioVars, mainVars, memVars,
                   restVars>>

\* AudioHandler._playback_loop, lines 232-244: the next chunk of the
\* playback queue is written to the speaker
Play ==
    /\ is_playing
    /\ output_queue # << >>
    /\ timeline' = Append(timeline,
                          [what |-> "played", at |-> Head(output_queue)])
    /\ output_queue' = Tail(output_queue)
    /\ UNCHANGED <<cb, event, handled, running, connected, accesses,
                   usageVars, textVars, toolVars, audio_output_queue,
                   is_playing, mainVars, memVars, restVars>>

\* run, lines 282-285: the content of the last user message, "" if none
RECURSIVE LastUserMessage(_, _)
LastUserMessage(history, i) ==
    IF i = 0 THEN ""
    ELSE IF history[i].role = "user" THEN history[i].content
    ELSE LastUserMessage(history, i - 1)

\* run, lines 273-293: one turn of the main loop
LoopTurn ==
    /\ mn = "looping"
    /\ IF ~(running /\ connected) \/ cost_limit_reached
           THEN /\ mn' = "stopping"
                /\ UNCHANGED accesses
           ELSE /\ accesses' = accesses \cup
                       {Access("main", "conversation_history", "read")}
                /\ mn' = IF LastUserMessage(conversation_history,
                                            Len(conversation_history))
                              = "goodbye"
                             THEN "stopping" ELSE "looping"
    /\ UNCHANGED <<cb, event, handled, running, connected, usageVars,
                   textVars, toolVars, audioVars, summary, stops, signalled,
                   memVars, restVars>>

\* signal_handler, lines 62-65: SIGINT or SIGTERM arrives while the main
\* thread is in the loop of run; the handler calls stop
Signal ==
    /\ mn = "looping"
    /\ signalled' = TRUE
    /\ mn' = "stopping"
    /\ UNCHANGED <<cb, event, handled, running, connected, accesses,
                   usageVars, textVars, toolVars, audioVars, summary, stops,
                   memVars, restVars>>

\* stop, lines 302-310, disconnect, lines 563-568, and AudioHandler.stop,
\* lines 299-303 with stop_playback, lines 263-266: the threads are not
\* joined
Stop ==
    /\ mn = "stopping"
    /\ running' = FALSE
    /\ connected' = FALSE
    /\ is_playing' = FALSE
    /\ output_queue' = << >>
    /\ stops' = stops + 1
    /\ mn' = "summary"
    /\ UNCHANGED <<cb, event, handled, accesses, usageVars, textVars,
                   toolVars, audio_output_queue, timeline, summary,
                   signalled, memVars, restVars>>

\* _display_session_summary, lines 190-208: the number of messages and of
\* responses
SummaryCounts ==
    /\ mn = "summary"
    /\ summary' = [summary EXCEPT
                      !.messages = Len(conversation_history),
                      !.response_count =
                          IF last_usage THEN realtime_usage.response_count
                          ELSE @]
    /\ accesses' = accesses
           \cup {Access("main", "conversation_history", "read")}
           \cup (IF last_usage THEN {Access("main", "usage", "read")} ELSE {})
    /\ mn' = "summary_tokens"
    /\ UNCHANGED <<cb, event, handled, running, connected, usageVars,
                   textVars, toolVars, audioVars, stops, signalled, memVars,
                   restVars>>

\* _display_session_summary, lines 209-215: the token counters
SummaryTokens ==
    /\ mn = "summary_tokens"
    /\ summary' = [summary EXCEPT
                      !.input_tokens =
                          IF last_usage THEN realtime_usage.input_tokens
                          ELSE @]
    /\ accesses' = accesses
           \cup (IF last_usage THEN {Access("main", "usage", "read")} ELSE {})
    /\ mn' = "saving"
    /\ UNCHANGED <<cb, event, handled, running, connected, usageVars,
                   textVars, toolVars, audioVars, stops, signalled, memVars,
                   restVars>>

\* stop, lines 315-337: the session is added to the memory. When stop was
\* called by the signal handler, sys.exit(0) (line 65) then raises
\* SystemExit in run, whose finally clause (line 298) calls stop again
SaveSession ==
    /\ mn = "saving"
    /\ mn' = IF signalled /\ stops = 1 THEN "stopping" ELSE "stopped"
    /\ IF conversation_history # << >> \/ last_usage
           THEN /\ AddConversation(
                       [question |-> "[Voice Session]",
                        response |-> Len(conversation_history),
                        cost |-> IF last_usage THEN realtime_usage.total_cost
                                 ELSE 0])
                /\ accesses' = accesses
                       \cup {Access("main", "conversation_history", "read")}
                       \cup (IF last_usage
                                 THEN {Access("main", "usage", "read")}
                             ELSE {})
           ELSE UNCHANGED <<memVars, accesses>>
    /\ UNCHANGED <<cb, event, handled, running, connected, usageVars,
                   textVars, toolVars, audioVars, summary, stops, signalled,
                   restVars>>

\* start, lines 220-264: the session is connected and running, the
\* playback thread started
InitVoice ==
    /\ ask_mode \in BOOLEAN
    /\ bfl_key = FALSE
    /\ LoopStart
    /\ CmdIdle
    /\ MemoryStart
    /\ verdicts = << >>
    /\ quote = [usage |-> ZeroTotals, model |-> DEFAULT_MODEL, cost |-> 0,
                priced |-> FALSE]
    /\ CacheIdle
    /\ cb = "idle"
    /\ event = NoEvent
    /\ handled = 0
    /\ realtime_usage = UsageStats(0, 0, 0, 0, 0, 0, 0)
    /\ reported = << >>
    /\ display_lock = "free"
    /\ conversation_history = << >>
    /\ current_text = [user |-> "", assistant |-> ""]
    /\ last_usage = FALSE
    /\ running = TRUE
    /\ connected = TRUE
    /\ cost_limit_reached = FALSE
    /\ cost_warning_shown = FALSE
    /\ warnings = 0
    /\ tool_runs = {}
    /\ calls = << >>
    /\ sent = << >>
    /\ invoked = << >>
    /\ audio_output_queue = << >>
    /\ output_queue = << >>
    /\ is_playing = TRUE
    /\ timeline = << >>
    /\ mn = "looping"
    /\ summary = NothingRead
    /\ stops = 0
    /\ signalled = FALSE
    /\ accesses = {}

\* a conversation: transcripts and response.done events, the main thread
NextVoice ==
    \/ Receive
    \/ OnClose
    \/ AcquireDisplayLock
    \/ WriteTranscript
    \/ UpdateTokens
    \/ CountResponse
    \/ CalculateCost
    \/ OnResponseDone
    \/ LoopTurn
    \/ Signal
    \/ Stop
    \/ SummaryCounts
    \/ SummaryTokens
    \/ SaveSession

SpecVoice == InitVoice /\ [][NextVoice]_vars

\* function calls, until the transport closes the connection
NextVoiceTools ==
    \/ ReceiveToolCall
    \/ ExecuteTool
    \/ SendFunctionResult
    \/ TriggerResponse
    \/ OnClose

SpecVoiceTools == InitVoice /\ [][NextVoiceTools]_vars

\* audio output and barge-in, while the main thread is in its loop or stops
NextBargeIn ==
    \/ ReceiveAudio
    \/ Play
    \/ OnClose
    \/ LoopTurn
    \/ Stop

SpecBargeIn == InitVoice /\ [][NextBargeIn]_vars

----------------------------------------------------------------------------
(* Properties of process_question                                          *)

FunctionCalls(items) == SelectSeq(items, LAMBDA e : e.type = "function_call")
ToolResults(items) ==
    SelectSeq(items, LAMBDA e : e.type = "function_call_output")
CallIds(items) == [i \in 1..Len(items) |-> items[i].call_id]

\* the tool calls of `response` have been processed and the loop is about to
\* call the model again
BeforeNextModelCall ==
    pc = "AwaitingModel" /\ iteration < MAX_ITERATIONS /\ has_function_calls

\* C1: when the model is called again after a response with N function_call
\* items, the transcript holds exactly N tool results for them, one per
\* call_id, in the order of the calls.
C1_EveryCallResolvedInOrder ==
    BeforeNextModelCall =>
        CallIds(ToolResults(input_list)) = CallIds(FunctionCalls(response))

\* C2: in ask mode no execute_command call is executed, and when the model
\* is called again each execute_command call of the response has a result
\* entry with its call_id in the transcript.
C2_ReadOnlyCallRefusedAndResolved ==
    ask_mode =>
        /\ \A i \in 1..Len(response) :
               response[i].name = "execute_command"
                   => \A j \in 1..Len(executed) : executed[j] # response[i].call_id
        /\ BeforeNextModelCall =>
               \A i \in 1..Len(response) :
                   response[i].name = "execute_command" =>
                       \E j \in 1..Len(input_list) :
                           /\ input_list[j].type = "function_call_output"
                           /\ input_list[j].call_id = response[i].call_id

AbortedBy(reason) ==
    /\ pc = "Aborted"
    /\ outcome.kind = "exception"
    /\ outcome.reason = reason

\* C3 as stated: a cumulative cost greater than or equal to
\* MAX_COST_PER_REQUEST after a response's usage is added aborts the request
\* and no tool call of that response is dispatched.
C3_AbortAtOrAboveCeiling ==
    (iteration > 0 /\ total_cost >= MAX_COST_PER_REQUEST)
        => AbortedBy("cost") /\ executed = << >>

\* C3 amended: a cumulative cost strictly greater than MAX_COST_PER_REQUEST
\* after a response's usage is added aborts the request and no tool call of
\* that response is dispatched.
C3_AbortAboveCeiling ==
    (iteration > 0 /\ total_cost > MAX_COST_PER_REQUEST)
        => AbortedBy("cost") /\ executed = << >>

\* C3 witness: the response that took the cost over the ceiling held tool
\* calls, and the request is aborted.
C3_Witness ==
    /\ total_cost > MAX_COST_PER_REQUEST
    /\ AbortedBy("cost")
    /\ Len(FunctionCalls(response)) >= 2

\* C4: once the tool-call counter exceeds MAX_TOOL_CALLS_PER_REQUEST the
\* request is aborted by the counting step, before any handler of that
\* response, the k-th call's included, is executed.
C4_AbortWhenCounterExceeds ==
    tool_call_count > MAX_TOOL_CALLS_PER_REQUEST
        => AbortedBy("tool_calls") /\ executed = << >>

\* the while loop was left because iteration reached MAX_ITERATIONS: the
\* last turn ended in a continue, not in a break
StoppedByIterationCeiling ==
    /\ iteration >= MAX_ITERATIONS
    /\ has_function_calls \/ (has_web_search /\ ~has_message)

\* C5: a request stopped by the iteration ceiling does not return to the
\* caller: it ends Aborted with an exception.
C5_IterationCeilingAborts ==
    (pc \in {"Returning", "Done"}) => ~StoppedByIterationCeiling

CeilingCrossed ==
    \/ iteration > MAX_ITERATIONS
    \/ tool_call_count > MAX_TOOL_CALLS_PER_REQUEST
    \/ total_cost > MAX_COST_PER_REQUEST

\* C6: once a ceiling is crossed, no step of the request calls the model or
\* invokes a tool handler.
C6_NoCallAfterCeiling ==
    [][CeilingCrossed =>
          /\ iteration' = iteration
          /\ ~(pc = "DispatchingTools" /\ executed' # << >>)]_vars

\* C7: a tool execution failure never propagates out of the loop: no
\* request ends with the exception of a failed tool call.
C7_ToolFailureStaysLocal ==
    ~AbortedBy("tool_exception")

\* the usages the endpoint may report: the cached tokens are among the
\* input tokens
ReportableUsages ==
    {u \in {Usage(i, o, c, r) : i \in TokenCounts, o \in TokenCounts,
                                c \in TokenCounts, r \in TokenCounts} :
        u.input_tokens_cached <= u.input_tokens}

\* C12: a request starts with the cost and the token counters at zero,
\* whatever the memory of earlier requests holds; no reportable usage has a
\* negative cost; and no step of the request lowers the cumulative cost or a
\* token counter.
C12_CostMonotoneFromZero ==
    /\ [](iteration = 0 =>
             /\ total_cost = 0
             /\ totals = ZeroTotals
             /\ \A u \in ReportableUsages :
                    calculate_cost(u, DEFAULT_MODEL) >= 0)
    /\ [][/\ total_cost' >= total_cost
          /\ totals'.input_tokens >= totals.input_tokens
          /\ totals'.output_tokens >= totals.output_tokens
          /\ totals'.input_tokens_cached >= totals.input_tokens_cached
          /\ totals'.reasoning_tokens >= totals.reasoning_tokens]_vars

\* C12 witness: after an earlier request that cost 2.00 dollars, a request
\* of two round-trips ended with a cumulative cost of exactly 2.00 dollars
C12_Witness ==
    /\ memory.total_cost = MAX_COST_PER_REQUEST
    /\ pc = "Done"
    /\ iteration = 2
    /\ total_cost = MAX_COST_PER_REQUEST

\* the request ended by a ceiling: the cost, the tool-call count or the
\* iteration count
EndedByCeiling ==
    \/ AbortedBy("cost")
    \/ AbortedBy("tool_calls")
    \/ StoppedByIterationCeiling

\* C13: the memory file is written only by the step that ends a completed
\* request, and no step of a request ended by a ceiling writes it.
C13_CeilingLeavesMemoryFile ==
    [][/\ memory_file' # memory_file => pc = "Done"
       /\ EndedByCeiling => memory_file' = memory_file]_vars

\* C14: the conversations of the memory are at most max_conversations, and
\* are the last max_conversations of those ever added, in the order added.
C14_LastAddedKept ==
    LET n == Len(added)
        k == IF n < max_conversations THEN n ELSE max_conversations
    IN  /\ Len(memory.conversations) <= max_conversations
        /\ memory.conversations = [i \in 1..k |-> added[n - k + i]]

\* C14 witness: two conversations or more have been evicted
C14_Witness ==
    /\ Len(added) >= max_conversations + 2
    /\ Len(memory.conversations) = max_conversations
    /\ max_conversations >= 2

\* C17: the handlers invoked for a response are those of its function_call
\* items, each at most once and in the order of the items; handlers are
\* invoked only by the one dispatch of the response, so that a call is run
\* again only if a later response holds it again.
C17_EachCallRunOnceInOrder ==
    /\ [](/\ \A i, j \in 1..Len(executed) :
                i < j => executed[i] < executed[j]
          /\ \A i \in 1..Len(executed) :
                /\ executed[i] \in 1..Len(response)
                /\ response[executed[i]].type = "function_call"
                /\ response[executed[i]].call_id = executed[i])
    /\ [][executed' # executed =>
              \/ executed' = << >> /\ iteration' = iteration + 1
              \/ pc = "DispatchingTools" /\ executed = << >>]_vars

\* C17 witness: the second call of a response failed after the first was
\* run; each was invoked once
C17_Witness ==
    /\ Len(response) = 2
    /\ response[2].fault = "handler_raises"
    /\ executed = <<1, 2>>
    /\ pc = "Aborted"

\* settings.py, MODEL_PRICING: the prices in thousandths of a dollar per
\* million tokens
DollarsPerMillion ==
    [m \in PricedModels |->
        CASE m = "gpt-5.1" -> Price(1250, 10000, 125)
          [] m = "gpt-5" -> Price(1250, 10000, 125)
          [] m = "gpt-5-mini" -> Price(250, 2000, 25)
          [] m = "gpt-5-nano" -> Price(50, 400, 5)]

\* C18: for a model of the pricing table the cost returned is
\* (input - cached) * price_input + cached * price_cached
\* + (output + reasoning) * price_output, the prices per million tokens.
\* Both sides are in billionths of a dollar: a unit of cost is 5 of them, a
\* token at a thousandth of a dollar per million is 1.
C18_CostFormula ==
    (quote.priced /\ quote.model \in PricedModels) =>
        LET u == quote.usage
            price == DollarsPerMillion[quote.model]
        IN  quote.cost * 5 =
                (u.input_tokens - u.input_tokens_cached) * price.input
                + u.input_tokens_cached * price.cached
                + (u.output_tokens + u.reasoning_tokens) * price.output

\* C18 witness: a usage with all four counters positive was priced for
\* gpt-5-mini
C18_Witness ==
    /\ quote.priced
    /\ quote.model = "gpt-5-mini"
    /\ quote.usage = Usage(50000, 2, 1, 50000)
    /\ quote.cost > 0

\* C19: for a model without prices the cost returned is zero, and it can be
\* told from the cost returned for a priced model and a usage of no tokens.
C19_UnknownModelFlagged ==
    (quote.priced /\ quote.model \notin PricedModels) =>
        /\ quote.cost = 0
        /\ quote.cost # calculate_cost(ZeroTotals, DEFAULT_MODEL)

----------------------------------------------------------------------------
(* Strings and regular expressions                                         *)
(*                                                                         *)
(* A Python str is a sequence of one-character strings. A regular          *)
(* expression is a tree of records; Match gives the set of positions at    *)
(* which a match starting at position i may end, as Python's re does with  *)
(* backtracking.                                                           *)

Letters == {"a", "b", "c", "d", "e", "f", "g", "h", "i", "j", "k", "l", "m",
            "n", "o", "p", "q", "r", "s", "t", "u", "v", "w", "x", "y", "z"}
UpperToLower ==
    [c \in {"A", "B", "C", "D", "E", "F", "G", "H", "I", "J", "K", "L", "M",
            "N", "O", "P", "Q", "R", "S", "T", "U", "V", "W", "X", "Y", "Z"} |->
        CASE c = "A" -> "a" [] c = "B" -> "b" [] c = "C" -> "c" [] c = "D" -> "d"
          [] c = "E" -> "e" [] c = "F" -> "f" [] c = "G" -> "g" [] c = "H" -> "h"
          [] c = "I" -> "i" [] c = "J" -> "j" [] c = "K" -> "k" [] c = "L" -> "l"
          [] c = "M" -> "m" [] c = "N" -> "n" [] c = "O" -> "o" [] c = "P" -> "p"
          [] c = "Q" -> "q" [] c = "R" -> "r" [] c = "S" -> "s" [] c = "T" -> "t"
          [] c = "U" -> "u" [] c = "V" -> "v" [] c = "W" -> "w" [] c = "X" -> "x"
          [] c = "Y" -> "y" [] c = "Z" -> "z"]
LowerChar(c) == IF c \in DOMAIN UpperToLower THEN UpperToLower[c] ELSE c

\* two characters are the same, under re.IGNORECASE when ic
SameChar(a, b, ic) == IF ic THEN LowerChar(a) = LowerChar(b) ELSE a = b

\* \s
Whitespace == {" ", "\t", "\n", "\r", "\f"}

Lit(cs) == [t |-> "lit", cs |-> cs, set |-> {}, sub |-> << >>]
Class(set) == [t |-> "class", cs |-> << >>, set |-> set, sub |-> << >>]
AnyChar == [t |-> "any", cs |-> << >>, set |-> {}, sub |-> << >>]
Cat(sub) == [t |-> "cat", cs |-> << >>, set |-> {}, sub |-> sub]
Alt(sub) == [t |-> "alt", cs |-> << >>, set |-> {}, sub |-> sub]
Plus(r) == [t |-> "plus", cs |-> << >>, set |-> {}, sub |-> <<r>>]
Star(r) == [t |-> "star", cs |-> << >>, set |-> {}, sub |-> <<r>>]

RECURSIVE Match(_, _, _, _), MatchCat(_, _, _, _, _), MatchMore(_, _, _, _, _)
Match(re, s, i, ic) ==
    CASE re.t = "lit" ->
            IF /\ i + Len(re.cs) - 1 <= Len(s)
               /\ \A k \in 1..Len(re.cs) : SameChar(s[i + k - 1], re.cs[k], ic)
                THEN {i + Len(re.cs)} ELSE {}
      [] re.t = "class" ->
            IF i <= Len(s) /\ \E c \in re.set : SameChar(s[i], c, ic)
                THEN {i + 1} ELSE {}
      [] re.t = "any" ->
            IF i <= Len(s) /\ s[i] # "\n" THEN {i + 1} ELSE {}
      [] re.t = "cat" -> MatchCat(re.sub, 1, s, {i}, ic)
      [] re.t = "alt" ->
            UNION {Match(re.sub[k], s, i, ic) : k \in 1..Len(re.sub)}
      [] re.t = "plus" ->
            LET first == Match(re.sub[1], s, i, ic)
            IN  MatchMore(re.sub[1], s, first, first, ic)
      [] re.t = "star" -> MatchMore(re.sub[1], s, {i}, {i}, ic)

\* the parts from the k-th on, one after the other, from any of the positions
MatchCat(parts, k, s, from, ic) ==
    IF k > Len(parts) \/ from = {} THEN from
    ELSE MatchCat(parts, k + 1, s,
                  UNION {Match(parts[k], s, j, ic) : j \in from}, ic)

\* any number of further repetitions of r
MatchMore(r, s, frontier, seen, ic) ==
    IF frontier = {} THEN seen
    ELSE LET next == UNION {Match(r, s, j, ic) : j \in frontier} \ seen
         IN  MatchMore(r, s, next, seen \cup next, ic)

\* re.search(pattern, s), with flags=re.IGNORECASE when ic
Search(re, s, ic) == \E i \in 1..(Len(s) + 1) : Match(re, s, i, ic) # {}

\* sub in s
Contains(s, sub) == Search(Lit(sub), s, FALSE)

\* re.split(r'[|;&]', s): the parts between the separators, empty ones kept
RECURSIVE SplitOn(_, _, _, _)
SplitOn(s, seps, i, cur) ==
    IF i > Len(s) THEN <<cur>>
    ELSE IF s[i] \in seps THEN <<cur>> \o SplitOn(s, seps, i + 1, << >>)
    ELSE SplitOn(s, seps, i + 1, Append(cur, s[i]))

\* s.split(): the words between runs of whitespace
RECURSIVE Words(_, _, _)
Words(s, i, cur) ==
    IF i > Len(s) THEN (IF cur = << >> THEN << >> ELSE <<cur>>)
    ELSE IF s[i] \in Whitespace
        THEN (IF cur = << >> THEN << >> ELSE <<cur>>) \o Words(s, i + 1, << >>)
    ELSE Words(s, i + 1, Append(cur, s[i]))

----------------------------------------------------------------------------
(* src/tools/terminal.py: the risk classifier                              *)

WS1 == Plus(Class(Whitespace))
WS0 == Star(Class(Whitespace))
\* (-[rf]+|--recursive|--force)
RmFlags == Alt(<<Cat(<<Lit(<<"-">>), Plus(Class({"r", "f"}))>>),
                 Lit(<<"-", "-", "r", "e", "c", "u", "r", "s", "i", "v", "e">>), Lit(<<"-", "-", "f", "o", "r", "c", "e">>)>>)
\* (-R|--recursive)
RecursiveFlag == Alt(<<Lit(<<"-", "R">>), Lit(<<"-", "-", "r", "e", "c", "u", "r", "s", "i", "v", "e">>)>>)
\* (sh|bash|zsh)
Shells == Alt(<<Lit(<<"s", "h">>), Lit(<<"b", "a", "s", "h">>), Lit(<<"z", "s", "h">>)>>)

\* DANGEROUS_PATTERNS, in order; src is the text of the pattern
DANGEROUS_PATTERNS == <<
    [src |-> "rm\\s+(-[rf]+|--recursive|--force)\\s+",
     re |-> Cat(<<Lit(<<"r", "m">>), WS1, RmFlags, WS1>>)],
    [src |-> "rm\\s+.*\\s+(-[rf]+|--recursive|--force)",
     re |-> Cat(<<Lit(<<"r", "m">>), WS1, Star(AnyChar), WS1, RmFlags>>)],
    [src |-> "dd\\s+(if=|of=)",
     re |-> Cat(<<Lit(<<"d", "d">>), WS1, Alt(<<Lit(<<"i", "f", "=">>), Lit(<<"o", "f", "=">>)>>)>>)],
    [src |-> "chmod\\s+(-R|--recursive)\\s+777",
     re |-> Cat(<<Lit(<<"c", "h", "m", "o", "d">>), WS1, RecursiveFlag, WS1, Lit(<<"7", "7", "7">>)>>)],
    [src |-> "chown\\s+(-R|--recursive)",
     re |-> Cat(<<Lit(<<"c", "h", "o", "w", "n">>), WS1, RecursiveFlag>>)],
    [src |-> "mkfs\\.",
     re |-> Lit(<<"m", "k", "f", "s", ".">>)],
    [src |-> "fdisk|parted",
     re |-> Alt(<<Lit(<<"f", "d", "i", "s", "k">>), Lit(<<"p", "a", "r", "t", "e", "d">>)>>)],
    [src |-> ":\\(\\)\\{\\s*:\\|:&\\s*\\};:",
     re |-> Cat(<<Lit(<<":", "(", ")", "{">>), WS0, Lit(<<":", "|", ":", "&">>), WS0, Lit(<<"}", ";", ":">>)>>)],
    [src |-> "curl\\s+.*\\|\\s*(sh|bash|zsh)",
     re |-> Cat(<<Lit(<<"c", "u", "r", "l">>), WS1, Star(AnyChar), Lit(<<"|">>), WS0, Shells>>)],
    [src |-> "wget\\s+.*\\|\\s*(sh|bash|zsh)",
     re |-> Cat(<<Lit(<<"w", "g", "e", "t">>), WS1, Star(AnyChar), Lit(<<"|">>), WS0, Shells>>)],
    [src |-> "sudo\\s+rm\\s+",
     re |-> Cat(<<Lit(<<"s", "u", "d", "o">>), WS1, Lit(<<"r", "m">>), WS1>>)],
    [src |-> ">\\s*/dev/(sd[a-z]|nvme)",
     re |-> Cat(<<Lit(<<">">>), WS0, Lit(<<"/", "d", "e", "v", "/">>),
                  Alt(<<Cat(<<Lit(<<"s", "d">>), Class(Letters)>>), Lit(<<"n", "v", "m", "e">>)>>)>>)] >>

Editors == {<<"v", "i", "m">>, <<"v", "i">>, <<"n", "v", "i", "m">>, <<"n", "a", "n", "o">>, <<"e", "m", "a", "c", "s">>, <<"p", "i", "c", "o">>}
Pagers == {<<"l", "e", "s", "s">>, <<"m", "o", "r", "e">>}
Monitors == {<<"t", "o", "p">>, <<"h", "t", "o", "p">>, <<"b", "t", "o", "p">>}
Manuals == {<<"m", "a", "n">>}
Interpreters == {<<"p", "y", "t", "h", "o", "n">>, <<"p", "y", "t", "h", "o", "n", "3">>, <<"n", "o", "d", "e">>}
DbShells == {<<"m", "y", "s", "q", "l">>, <<"p", "s", "q", "l">>, <<"s", "q", "l", "i", "t", "e", "3">>}
RubyShells == {<<"i", "r", "b">>, <<"p", "r", "y">>}

INTERACTIVE_COMMANDS ==
    Editors \cup Pagers \cup Monitors \cup Manuals
        \cup {<<"p", "y", "t", "h", "o", "n">>, <<"p", "y", "t", "h", "o", "n", "3">>, <<"i", "p", "y", "t", "h", "o", "n">>} \cup {<<"n", "o", "d", "e">>}
        \cup RubyShells \cup DbShells

Verdict(level, reason) == [level |-> level, reason |-> reason]

\* lines 115-117: the first dangerous pattern found in the command, 0 if none
RECURSIVE FirstDangerous(_, _)
FirstDangerous(cmd, k) ==
    IF k > Len(DANGEROUS_PATTERNS) THEN 0
    ELSE IF Search(DANGEROUS_PATTERNS[k].re, cmd, TRUE) THEN k
    ELSE FirstDangerous(cmd, k + 1)

\* lines 123-128: the first word of a part, the second if the first is sudo
CmdWord(part) ==
    LET ws == Words(part, 1, << >>)
    IN  IF ws = << >> THEN << >>
        ELSE IF ws[1] = <<"s", "u", "d", "o">> /\ Len(ws) > 1 THEN ws[2]
        ELSE ws[1]

\* lines 131-147: the verdict on one part, "none" when no branch returns
PartVerdict(part) ==
    LET w == CmdWord(part)
        one_shot == Contains(part, <<"-", "c">>) \/ Contains(part, <<"-", "e">>)
    IN  IF w \notin INTERACTIVE_COMMANDS THEN "none"
        ELSE IF w \in Editors THEN "Interactive editor"
        ELSE IF w \in Pagers THEN "Interactive pager"
        ELSE IF w \in Monitors THEN "Interactive monitor"
        ELSE IF w \in Manuals THEN "Interactive manual"
        ELSE IF w \in Interpreters /\ ~one_shot THEN "Interactive interpreter"
        ELSE IF w \in DbShells /\ ~one_shot THEN "Interactive database shell"
        ELSE IF w \in RubyShells THEN "Interactive Ruby shell"
        ELSE "none"

\* lines 121-147: the verdict of the first part that has one
RECURSIVE FirstInteractive(_, _)
FirstInteractive(parts, k) ==
    IF k > Len(parts) THEN "none"
    ELSE IF PartVerdict(parts[k]) # "none" THEN PartVerdict(parts[k])
    ELSE FirstInteractive(parts, k + 1)

InteractiveReason(cmd) ==
    FirstInteractive(SplitOn(cmd, {"|", ";", "&"}, 1, << >>), 1)

\* the package manager check made without looking for the flag
PackageManagerWithoutNoconfirm_FlagIgnored(cmd) ==
    Search(Cat(<<Alt(<<Lit(<<"p", "a", "c", "m", "a", "n">>), Lit(<<"y", "a", "y">>)>>), WS1,
                 Alt(<<Lit(<<"-", "S">>), Lit(<<"-", "S", "y", "u">>), Lit(<<"-", "R">>)>>)>>), cmd, TRUE)

\* lines 150-152: a package manager command without --noconfirm
PackageManagerWithoutNoconfirm(cmd) ==
    /\ Search(Cat(<<Alt(<<Lit(<<"p", "a", "c", "m", "a", "n">>), Lit(<<"y", "a", "y">>)>>), WS1,
                    Alt(<<Lit(<<"-", "S">>), Lit(<<"-", "S", "y", "u">>), Lit(<<"-", "R">>)>>)>>), cmd, TRUE)
    /\ ~Contains(cmd, <<"-", "-", "n", "o", "c", "o", "n", "f", "i", "r", "m">>)
    /\ ~Contains(cmd, <<"-", "-", "n", "o", "-", "c", "o", "n", "f", "i", "r", "m">>)

\* classify_command_risk keeping what it was asked: a command seen before
\* is passed as safe
classify_command_risk_Remembering(cmd) ==
    IF \E i \in 1..Len(verdicts) : verdicts[i].command = cmd
        THEN Verdict("safe", "none")
    ELSE IF FirstDangerous(cmd, 1) # 0
        THEN Verdict("risky", DANGEROUS_PATTERNS[FirstDangerous(cmd, 1)].src)
    ELSE IF InteractiveReason(cmd) # "none"
        THEN Verdict("interactive", InteractiveReason(cmd))
    ELSE IF PackageManagerWithoutNoconfirm(cmd)
        THEN Verdict("interactive",
                     "Package manager command detected without --noconfirm flag")
    ELSE Verdict("safe", "none")

\* the interactive check made before the dangerous patterns
classify_command_risk_InteractiveFirst(cmd) ==
    IF InteractiveReason(cmd) # "none"
        THEN Verdict("interactive", InteractiveReason(cmd))
    ELSE IF PackageManagerWithoutNoconfirm(cmd)
        THEN Verdict("interactive",
                     "Package manager command detected without --noconfirm flag")
    ELSE IF FirstDangerous(cmd, 1) # 0
        THEN Verdict("risky", DANGEROUS_PATTERNS[FirstDangerous(cmd, 1)].src)
    ELSE Verdict("safe", "none")

\* classify_command_risk: (risk_level, reason)
classify_command_risk(cmd) ==
    IF FirstDangerous(cmd, 1) # 0
        THEN Verdict("risky", DANGEROUS_PATTERNS[FirstDangerous(cmd, 1)].src)
    ELSE IF InteractiveReason(cmd) # "none"
        THEN Verdict("interactive", InteractiveReason(cmd))
    ELSE IF PackageManagerWithoutNoconfirm(cmd)
        THEN Verdict("interactive",
                     "Package manager command detected without --noconfirm flag")
    ELSE Verdict("safe", "none")

\* get_safer_alternative (no re.IGNORECASE here)
get_safer_alternative(cmd) ==
    IF Search(Cat(<<Lit(<<"r", "m">>), WS1, RmFlags>>), cmd, FALSE) THEN "use trash"
    ELSE IF Search(DANGEROUS_PATTERNS[4].re, cmd, FALSE) THEN "avoid 777"
    ELSE IF Search(DANGEROUS_PATTERNS[9].re, cmd, FALSE) THEN "download first"
    ELSE IF Search(DANGEROUS_PATTERNS[3].re, cmd, FALSE) THEN "double-check dd"
    ELSE "none"

\* The commands the model asks to run
Commands == {
    \* ls -la
    <<"l", "s", " ", "-", "l", "a">>,
    \* echo hi
    <<"e", "c", "h", "o", " ", "h", "i">>,
    \* rm -rf /tmp/x
    <<"r", "m", " ", "-", "r", "f", " ", "/", "t", "m", "p", "/", "x">>,
    \* RM -RF /tmp/x
    <<"R", "M", " ", "-", "R", "F", " ", "/", "t", "m", "p", "/", "x">>,
    \* rm -Rf /tmp/x
    <<"r", "m", " ", "-", "R", "f", " ", "/", "t", "m", "p", "/", "x">>,
    \* rm a.txt
    <<"r", "m", " ", "a", ".", "t", "x", "t">>,
    \* vim file.txt
    <<"v", "i", "m", " ", "f", "i", "l", "e", ".", "t", "x", "t">>,
    \* sudo vim /etc/hosts
    <<"s", "u", "d", "o", " ", "v", "i", "m", " ", "/", "e", "t", "c", "/", "h", "o", "s", "t", "s">>,
    \* sudo pacman -Syu
    <<"s", "u", "d", "o", " ", "p", "a", "c", "m", "a", "n", " ", "-", "S", "y", "u">>,
    \* sudo pacman -Syu --noconfirm
    <<"s", "u", "d", "o", " ", "p", "a", "c", "m", "a", "n", " ", "-", "S", "y", "u", " ", "-", "-", "n", "o", "c", "o", "n", "f", "i", "r", "m">>,
    \* rm -rf /tmp/x; vim notes
    <<"r", "m", " ", "-", "r", "f", " ", "/", "t", "m", "p", "/", "x", ";", " ", "v", "i", "m", " ", "n", "o", "t", "e", "s">>,
    \* vim /etc/fstab && fdisk -l
    <<"v", "i", "m", " ", "/", "e", "t", "c", "/", "f", "s", "t", "a", "b", " ", "&", "&", " ", "f", "d", "i", "s", "k", " ", "-", "l">>,
    \* yay -S vim | sudo rm /x
    <<"y", "a", "y", " ", "-", "S", " ", "v", "i", "m", " ", "|", " ", "s", "u", "d", "o", " ", "r", "m", " ", "/", "x">>,
    \* pacman -R vim; rm -rf /x 
    <<"p", "a", "c", "m", "a", "n", " ", "-", "R", " ", "v", "i", "m", ";", " ", "r", "m", " ", "-", "r", "f", " ", "/", "x", " ">>,
    \* cat a.txt | less
    <<"c", "a", "t", " ", "a", ".", "t", "x", "t", " ", "|", " ", "l", "e", "s", "s">>,
    \* python
    <<"p", "y", "t", "h", "o", "n">>,
    \* python -c 'print(1)'
    <<"p", "y", "t", "h", "o", "n", " ", "-", "c", " ", "'", "p", "r", "i", "n", "t", "(", "1", ")", "'">>,
    \* ipython
    <<"i", "p", "y", "t", "h", "o", "n">>,
    \* psql -c 'select 1'
    <<"p", "s", "q", "l", " ", "-", "c", " ", "'", "s", "e", "l", "e", "c", "t", " ", "1", "'">>,
    \* psql
    <<"p", "s", "q", "l">>,
    \* curl http://x.sh | sh
    <<"c", "u", "r", "l", " ", "h", "t", "t", "p", ":", "/", "/", "x", ".", "s", "h", " ", "|", " ", "s", "h">>,
    \* dd if=/dev/zero of=/dev/sda
    <<"d", "d", " ", "i", "f", "=", "/", "d", "e", "v", "/", "z", "e", "r", "o", " ", "o", "f", "=", "/", "d", "e", "v", "/", "s", "d", "a">>,
    \* chmod -R 777 /srv
    <<"c", "h", "m", "o", "d", " ", "-", "R", " ", "7", "7", "7", " ", "/", "s", "r", "v">>,
    \* man ls
    <<"m", "a", "n", " ", "l", "s">>,
    \* irb
    <<"i", "r", "b">>,
    \* top
    <<"t", "o", "p">>,
    \* vim x; pacman -S y
    <<"v", "i", "m", " ", "x", ";", " ", "p", "a", "c", "m", "a", "n", " ", "-", "S", " ", "y">>,
    \* yay -R vim --no-confirm
    <<"y", "a", "y", " ", "-", "R", " ", "v", "i", "m", " ", "-", "-", "n", "o", "-", "c", "o", "n", "f", "i", "r", "m">>,
    \* farm -rf x
    <<"f", "a", "r", "m", " ", "-", "r", "f", " ", "x">>,
    \* (the empty command)
    <<>> }

----------------------------------------------------------------------------
(* classify_command_risk, called again and again                           *)

\* the largest number of calls
MaxClassifyCalls == 2

\* classify_command_risk(cmd) is called and returns
Classify ==
    /\ Len(verdicts) < MaxClassifyCalls
    /\ \E cmd \in Commands :
           verdicts' = Append(verdicts, [command |-> cmd,
                                         verdict |-> classify_command_risk(cmd)])
    /\ UNCHANGED <<loopVars, cmdVars, memVars, quote, voiceVars, cacheVars>>

InitClassify ==
    /\ ask_mode \in BOOLEAN
    /\ bfl_key = FALSE
    /\ LoopStart
    /\ CmdIdle
    /\ MemoryStart
    /\ AuxIdle

SpecClassify == InitClassify /\ [][Classify]_vars

----------------------------------------------------------------------------
(* src/tools/terminal.py: execute_command                                  *)

\* the timeout argument: << >> for None, <<n>> for the integer n
Timeouts == {<< >>, <<-5>>, <<0>>, <<10>>, <<300>>, <<301>>}

DefaultTimeout == 30
TimeoutCap == 300

\* lines 249-253
EffectiveTimeout(requested) ==
    IF requested = << >> THEN DefaultTimeout
    ELSE IF requested[1] > TimeoutCap THEN TimeoutCap
    ELSE requested[1]

\* line 271 with the level misspelt: the branch is never taken
RefusedOutright_Misspelt(level) == level = "Interactive"

\* line 271: interactive commands are refused
RefusedOutright(level) == level = "interactive"

\* line 276: risky commands need the user's confirmation
NeedsConfirmation(level) == level = "risky"

\* prompt_user_confirmation with a failing prompt taken for a yes
prompt_user_confirmation_FailOpen(a) == a \in {"yes", "error"}

\* prompt_user_confirmation, lines 220-232: what Confirm.ask produced: the
\* user's yes or no, a KeyboardInterrupt, or another exception
prompt_user_confirmation(a) ==
    CASE a = "yes" -> TRUE
      [] a = "no" -> FALSE
      [] a = "interrupt" -> FALSE
      [] a = "error" -> FALSE

\* the signals sent to the process group with the timeout's only SIGTERM
TerminationSignals_TermOnly == <<"SIGTERM">>

\* lines 315-320 and 333-338: os.killpg(os.getpgid(process.pid), ...) on the
\* group that preexec_fn=os.setsid made for the command: SIGTERM, and after
\* half a second SIGKILL
TerminationSignals == <<"SIGTERM", "SIGKILL">>

\* processes of the group go on running after the signals: none after a
\* SIGKILL; after a SIGTERM alone, those that trap it
StillRunning(sigs, traps_sigterm) ==
    /\ \A i \in 1..Len(sigs) : sigs[i] # "SIGKILL"
    /\ traps_sigterm \/ \A i \in 1..Len(sigs) : sigs[i] # "SIGTERM"

\* the interrupt branch returning the timeout's message
WaitResult_InterruptAsTimeout(ended) ==
    CASE ended = "exited" -> "completed"
      [] ended = "timeout" -> "timed_out"
      [] ended = "interrupt" -> "timed_out"

\* lines 330, 348, 369-398: the string returned for each way the wait ends:
\* "Command interrupted by user (Ctrl+C)", "Error: Command timed out", and
\* the formatted output of a command that exited
WaitResult(ended) ==
    CASE ended = "exited" -> "completed"
      [] ended = "timeout" -> "timed_out"
      [] ended = "interrupt" -> "interrupted"

Return(kind) ==
    /\ result' = kind
    /\ xpc' = "returned"

\* lines 247-283, up to the confirmation prompt: the timeout, the working
\* directory, the classification and what follows from it
Call ==
    /\ xpc = "idle"
    /\ \E cmd \in Commands, wd \in BOOLEAN, t \in Timeouts :
        /\ command' = cmd
        /\ working_dir_ok' = wd
        /\ requested_timeout' = t
        /\ timeout' = EffectiveTimeout(t)
        /\ IF ~wd
               THEN /\ Return("working_directory_error")
                    /\ UNCHANGED <<risk, prompted>>
           ELSE LET v == classify_command_risk(cmd)
                IN  /\ risk' = v
                    /\ IF RefusedOutright(v.level)
                           THEN /\ Return("interactive_error")
                                /\ UNCHANGED prompted
                       ELSE IF NeedsConfirmation(v.level)
                           THEN /\ prompted' = TRUE
                                /\ xpc' = "confirming"
                                /\ UNCHANGED result
                       ELSE /\ xpc' = "spawning"
                            /\ UNCHANGED <<prompted, result>>
    /\ UNCHANGED <<answer, spawned, alive, wait_ended, signals, loopVars,
                   memVars, auxVars>>

\* lines 278-283: the prompt returns
Confirm ==
    /\ xpc = "confirming"
    /\ \E a \in {"yes", "no", "interrupt", "error"} :
        /\ answer' = a
        /\ IF prompt_user_confirmation(a)
               THEN xpc' = "spawning" /\ UNCHANGED result
               ELSE Return("cancelled")
    /\ UNCHANGED <<command, working_dir_ok, requested_timeout, timeout, risk,
                   prompted, spawned, alive, wait_ended, signals, loopVars,
                   memVars, auxVars>>

\* lines 291-303 and 400-410: subprocess.Popen starts the command, or raises
Spawn ==
    /\ xpc = "spawning"
    /\ \/ /\ spawned' = TRUE
          /\ alive' = TRUE
          /\ xpc' = "waiting"
          /\ UNCHANGED result
       \/ /\ \E e \in {"command_not_found", "permission_denied",
                       "execution_failed"} : Return(e)
          /\ UNCHANGED <<spawned, alive>>
    /\ UNCHANGED <<command, working_dir_ok, requested_timeout, timeout, risk,
                   prompted, answer, wait_ended, signals, loopVars, memVars,
                   auxVars>>

\* lines 305-309, 331, 350-398: process.communicate(timeout=timeout) ends:
\* the command exits and its output is returned, or TimeoutExpired or
\* KeyboardInterrupt is raised
Wait ==
    /\ xpc = "waiting"
    /\ \E ended \in {"exited", "timeout", "interrupt"} :
        /\ wait_ended' = ended
        /\ IF ended = "exited"
               THEN /\ alive' = FALSE
                    /\ Return(WaitResult(ended))
               ELSE /\ xpc' = "terminating"
                    /\ UNCHANGED <<alive, result>>
    /\ UNCHANGED <<command, working_dir_ok, requested_timeout, timeout, risk,
                   prompted, answer, spawned, signals, loopVars, memVars,
                   auxVars>>

\* lines 310-330 and 332-348: the except branches: the process group is
\* signalled, the pipes are drained, and the branch's message is returned
Terminate ==
    /\ xpc = "terminating"
    /\ signals' = TerminationSignals
    /\ \E traps_sigterm \in BOOLEAN :
           alive' = StillRunning(TerminationSignals, traps_sigterm)
    /\ Return(WaitResult(wait_ended))
    /\ UNCHANGED <<command, working_dir_ok, requested_timeout, timeout, risk,
                   prompted, answer, spawned, wait_ended, loopVars, memVars,
                   auxVars>>

\* the caller has the result; the next call starts afresh
Returned ==
    /\ xpc = "returned"
    /\ xpc' = "idle"
    /\ command' = << >>
    /\ working_dir_ok' = TRUE
    /\ requested_timeout' = << >>
    /\ timeout' = 0
    /\ risk' = [level |-> "none", reason |-> "none"]
    /\ prompted' = FALSE
    /\ answer' = "none"
    /\ spawned' = FALSE
    /\ alive' = FALSE
    /\ wait_ended' = "none"
    /\ signals' = << >>
    /\ result' = "none"
    /\ UNCHANGED <<loopVars, memVars, auxVars>>

InitCmd ==
    /\ ask_mode = FALSE
    /\ bfl_key = FALSE
    /\ LoopStart
    /\ CmdIdle
    /\ MemoryStart
    /\ AuxIdle

NextCmd ==
    \/ Call
    \/ Confirm
    \/ Spawn
    \/ Wait
    \/ Terminate
    \/ Returned

SpecCmd == InitCmd /\ [][NextCmd]_vars

----------------------------------------------------------------------------
(* Properties of execute_command and classify_command_risk                 *)

\* C8: with a valid working directory, the prompt is shown if and only if
\* the verdict is risky (the spec's dangerous); a subprocess is spawned only
\* for a safe command or a risky one the user confirmed; a declined,
\* interrupted or failed prompt spawns nothing and returns the cancelled
\* result, which says the command was not executed and gives the reason.
C8_ConfirmationGate ==
    (xpc # "idle" /\ working_dir_ok) =>
        /\ prompted <=> risk.level = "risky"
        /\ spawned =>
               \/ risk.level = "safe"
               \/ risk.level = "risky" /\ answer = "yes"
        /\ answer \in {"no", "interrupt", "error"} =>
               ~spawned /\ result = "cancelled" /\ xpc = "returned"

\* C8 witness: the prompt for a risky command failed and the command was
\* not run
C8_Witness ==
    /\ risk.level = "risky"
    /\ prompted
    /\ answer = "error"
    /\ result = "cancelled"
    /\ ~spawned

\* vim file.txt
VimFile == <<"v", "i", "m", " ", "f", "i", "l", "e", ".", "t", "x", "t">>

\* C9: vim file.txt is interactive, and a command whose verdict is
\* interactive is refused at once: no prompt, no subprocess, and the result
\* is the interactive-command error, which carries the reason.
C9_InteractiveRefused ==
    /\ classify_command_risk(VimFile).level = "interactive"
    /\ risk.level = "interactive" =>
           /\ ~prompted
           /\ ~spawned
           /\ answer = "none"
           /\ xpc = "returned"
           /\ result = "interactive_error"
           /\ risk.reason # "none"

\* C9 witness: vim file.txt was refused
C9_Witness ==
    /\ command = VimFile
    /\ risk.level = "interactive"
    /\ result = "interactive_error"

MatchesDangerous(cmd) ==
    \E k \in 1..Len(DANGEROUS_PATTERNS) :
        Search(DANGEROUS_PATTERNS[k].re, cmd, TRUE)
MatchesInteractive(cmd) ==
    \/ \E part \in {SplitOn(cmd, {"|", ";", "&"}, 1, << >>)[k] :
                       k \in 1..Len(SplitOn(cmd, {"|", ";", "&"}, 1, << >>))} :
           PartVerdict(part) # "none"
    \/ PackageManagerWithoutNoconfirm(cmd)

MatchesForcedRecursiveDelete(cmd) ==
    Search(DANGEROUS_PATTERNS[1].re, cmd, TRUE)

\* C20: a classified command that matches the forced-recursive-delete
\* pattern is risky, its reason names that pattern, and a safer alternative
\* is suggested for it.
C20_ForcedDeleteHasAlternative ==
    (risk.level # "none" /\ MatchesForcedRecursiveDelete(command)) =>
        /\ risk.level = "risky"
        /\ risk.reason = DANGEROUS_PATTERNS[1].src
        /\ get_safer_alternative(command) # "none"

\* sudo pacman -Syu
SudoPacmanSyu == <<"s", "u", "d", "o", " ", "p", "a", "c", "m", "a", "n", " ", "-", "S", "y", "u">>
\* sudo pacman -Syu --noconfirm
SudoPacmanSyuNoconfirm == <<"s", "u", "d", "o", " ", "p", "a", "c", "m", "a", "n", " ", "-", "S", "y", "u", " ", "-", "-", "n", "o", "c", "o", "n", "f", "i", "r", "m">>

\* the command invokes pacman or yay with -S, -Syu or -R, in any case of
\* letters
InvokesPackageManager(cmd) ==
    \E manager \in {<<"p", "a", "c", "m", "a", "n">>, <<"y", "a", "y">>},
       sub \in {<<"-", "S">>, <<"-", "S", "y", "u">>, <<"-", "R">>} :
        Search(Cat(<<Lit(manager), WS1, Lit(sub)>>), cmd, TRUE)
\* the command carries --noconfirm or --no-confirm
CarriesNoconfirm(cmd) ==
    \/ Contains(cmd, <<"-", "-", "n", "o", "c", "o", "n", "f", "i", "r", "m">>)
    \/ Contains(cmd, <<"-", "-", "n", "o", "-", "c", "o", "n", "f", "i", "r", "m">>)

\* C21: a classified command that matches no dangerous pattern, starts no
\* interactive program and invokes a package manager's install, upgrade or
\* remove sub-command is interactive when it carries no confirmation flag
\* and safe when it carries one; sudo pacman -Syu is interactive and
\* sudo pacman -Syu --noconfirm is safe.
C21_PackageManagerNeedsNoconfirm ==
    /\ classify_command_risk(SudoPacmanSyu).level = "interactive"
    /\ classify_command_risk(SudoPacmanSyuNoconfirm).level = "safe"
    /\ (/\ risk.level # "none"
        /\ ~MatchesDangerous(command)
        /\ InteractiveReason(command) = "none"
        /\ InvokesPackageManager(command)) =>
           risk.level = IF CarriesNoconfirm(command) THEN "safe"
                        ELSE "interactive"

\* C21 witness: a package manager command carrying the flag was classified
\* safe and a subprocess was started for it
C21_Witness ==
    /\ InvokesPackageManager(command)
    /\ CarriesNoconfirm(command)
    /\ risk.level = "safe"
    /\ spawned

----------------------------------------------------------------------------
(* Properties of the voice session                                         *)

Counters == {"input_tokens", "output_tokens", "cached_tokens",
             "input_audio_tokens", "output_audio_tokens", "response_count"}

RECURSIVE SumOf(_, _)
SumOf(increments, counter) ==
    IF increments = << >> THEN 0
    ELSE increments[1][counter] + SumOf(Tail(increments), counter)

\* between two events, each counter is the sum of the increments reported
\* by the response.done events handled so far
NoLostUpdate ==
    cb = "idle" =>
        \A c \in Counters : realtime_usage[c] = SumOf(reported, c)

\* every read and write of the transcript text, the conversation history
\* and the usage was made holding _display_lock
SharedStateLocked == \A a \in accesses : a.locked

\* C22: in a voice session, under any interleaving of the callback thread,
\* the tool threads and the main thread, each usage counter is the sum of
\* the increments of the response.done events handled, and the transcript
\* text, the conversation history and the usage are read and written under
\* the display lock.
C22_CountersSummedAndStateLocked ==
    NoLostUpdate /\ SharedStateLocked

----------------------------------------------------------------------------
(* Properties of the persistence failures                                  *)

\* the memory file cannot be read: it cannot be opened, or what it holds
\* cannot be decoded
Unreadable(file) == file.state \in {"corrupt", "unreadable", "undecodable"}

\* C23: a request that finds the memory file unreadable starts
\* process_question with the empty memory; no request ends on an exception
\* of load_memory or save_memory; and a request whose answer was returned
\* goes on to Saved, whatever the write of the memory file does.
C23_PersistenceFailureNotFatal ==
    /\ []((iteration = 0 /\ Unreadable(memory_file)) =>
             (pc = "AwaitingModel" /\ memory = EmptyMemory))
    /\ [](pc # "Crashed" /\ outcome.reason # "load_memory")
    /\ [][pc = "Done" => pc' = "Saved"]_vars

----------------------------------------------------------------------------
(* Properties of the transcript                                            *)

IsPrefix(a, b) == Len(a) <= Len(b) /\ SubSeq(b, 1, Len(a)) = a
Suffix(b, n) == SubSeq(b, n + 1, Len(b))

\* the entries are tool outputs of function_call items of the response
DerivedFrom(outputs, items) ==
    \A i \in 1..Len(outputs) :
        /\ outputs[i].type \in {"function_call_output", "user_image_message"}
        /\ \E j \in 1..Len(items) :
               /\ items[j].type = "function_call"
               /\ items[j].call_id = outputs[i].call_id

\* C24: every step of a request leaves the transcript as it is or appends
\* to it; the step that takes a model response appends exactly the
\* response's output items, in their order; the dispatch step appends
\* exactly the tool outputs derived from that response, directly after its
\* items; no other step changes the transcript.
C24_TranscriptAppendOnly ==
    [][/\ IsPrefix(input_list, input_list')
       /\ input_list' # input_list =>
              \/ /\ pc = "AwaitingModel"
                 /\ pc' = "InspectingOutput"
                 /\ input_list' = input_list \o response'
              \/ /\ pc = "DispatchingTools"
                 /\ pc' = "AwaitingModel"
                 /\ Suffix(input_list, Len(input_list) - Len(response))
                        = response
                 /\ DerivedFrom(Suffix(input_list', Len(input_list)), response)
       /\ (pc = "AwaitingModel" /\ pc' = "InspectingOutput") =>
              input_list' = input_list \o response']_vars

\* C24 witness: after three responses, each asking for two tools, the
\* transcript holds the question, then each response's two calls followed
\* by their three tool outputs
C24_Witness ==
    /\ iteration = 3
    /\ pc = "AwaitingModel"
    /\ Len(input_list) = Len(InitialTranscript) + 3 * 5
    /\ \A k \in 0..2 :
           /\ SubSeq(input_list, 3 + 5 * k, 4 + 5 * k) = response
           /\ DerivedFrom(SubSeq(input_list, 5 + 5 * k, 7 + 5 * k), response)

----------------------------------------------------------------------------
(* Properties of the choice of the next step                               *)

\* in read-only mode, the response holds tool calls and each of them is a
\* blocked execute_command
OnlyBlockedCalls(items) ==
    /\ ask_mode
    /\ FunctionCalls(items) # << >>
    /\ \A i \in 1..Len(items) :
           /\ items[i].type # "web_search_call"
           /\ items[i].type = "function_call" =>
                  BlockedInAskMode(ask_mode, items[i])

\* C25: in read-only mode the scan of a response whose only tool calls are
\* blocked execute_command calls adds each of them to the tool-call
\* counter, leaves has_function_calls false, and is not followed by a
\* dispatch round.
C25_BlockedCallCountedNotDispatched ==
    [][(pc = "InspectingOutput" /\ OnlyBlockedCalls(response)) =>
          /\ tool_call_count' =
                 tool_call_count + Len(FunctionCalls(response))
          /\ ~has_function_calls'
          /\ pc' # "DispatchingTools"]_vars

HasItem(items, type) == \E i \in 1..Len(items) : items[i].type = type

\* C26: when the scan of a response raises nothing, the next step follows
\* from the kinds of its items: with a function_call item, a message or
\* not, the tools are dispatched, and the dispatch, unless it raises, leads
\* to the next model call; else with a web_search_call and no message the
\* model is called next with no dispatch; else with a message the loop is
\* left and the request ends Done. A model call that the iteration ceiling
\* allows is the only step of a request awaiting the model.
C26_NextStepByItemKinds ==
    [][/\ (pc = "InspectingOutput" /\ pc' # "Aborted") =>
              IF HasItem(response, "function_call")
                  THEN pc' = "DispatchingTools"
              ELSE IF HasItem(response, "web_search_call")
                      /\ ~HasItem(response, "message")
                  THEN pc' = "AwaitingModel" /\ executed' = << >>
              ELSE HasItem(response, "message") => pc' = "Returning"
       /\ (pc = "DispatchingTools" /\ pc' # "Aborted") => pc' = "AwaitingModel"
       /\ (pc = "AwaitingModel" /\ iteration < MAX_ITERATIONS) =>
              iteration' = iteration + 1
       /\ pc = "Returning" => pc' = "Done"]_vars

\* C26 witness: a response holding a function call and a message had its
\* tool dispatched, and the model is about to be called again
C26_Witness ==
    /\ response = WithIds(<<fetchC, messageI>>)
    /\ has_function_calls /\ has_message
    /\ executed = <<1>>
    /\ pc = "AwaitingModel"
    /\ iteration < MAX_ITERATIONS

\* the response holds no function call, no search call and no message
Anomalous(items) ==
    /\ ~HasItem(items, "function_call")
    /\ ~HasItem(items, "web_search_call")
    /\ ~HasItem(items, "message")

\* C27: after a response that holds no function call, no search call and
\* no message the request is inspecting it, leaving the loop or Done; it
\* ends Done with an empty answer; and no further model call is made.
C27_AnomalyEndsDoneEmpty ==
    /\ []((iteration > 0 /\ Anomalous(response) /\ pc # "Aborted") =>
             /\ pc \in {"InspectingOutput", "Returning", "Done"}
             /\ pc = "Done" => outcome.final_response = "empty")
    /\ [][(iteration > 0 /\ Anomalous(response)) =>
              iteration' = iteration]_vars

\* C27 witness: the second response held a reasoning item only, and the
\* request ended Done with an empty answer
C27_Witness ==
    /\ iteration = 2
    /\ response = <<reasoningI>>
    /\ pc = "Done"
    /\ outcome.kind = "returned"
    /\ outcome.final_response = "empty"

----------------------------------------------------------------------------
(* Properties of the tool set                                              *)

\* the names of the function tools of a tools list
FunctionTools(list) ==
    {list[i].name : i \in {j \in 1..Len(list) : list[j].type = "function"}}

\* C28: in read-only mode neither the tools list nor the handler map holds
\* execute_command, in normal mode both hold it, and in every mode the
\* function tools of the list are exactly the tools that have a handler.
C28_SchemasMatchHandlers ==
    LET schemas == FunctionTools(tools(ask_mode, bfl_key))
        handlers == get_available_tools(ask_mode, bfl_key)
    IN  /\ ask_mode => ("execute_command" \notin schemas
                        /\ "execute_command" \notin handlers)
        /\ ~ask_mode => ("execute_command" \in schemas
                         /\ "execute_command" \in handlers)
        /\ schemas = handlers

\* C28 witness: in read-only mode with the image tools on, a response asked
\* for execute_command and fetch_webpage, and only the second was run
C28_Witness ==
    /\ ask_mode
    /\ bfl_key
    /\ response = WithIds(<<execC, fetchC>>)
    /\ executed = <<2>>
    /\ pc = "AwaitingModel"

----------------------------------------------------------------------------
(* Termination of process_question                                         *)

\* C29: whatever the endpoint answers, and every model call and tool
\* handler returning, a request ends, Done or Aborted, and no step takes
\* the number of model calls above MAX_ITERATIONS.
C29_TerminatesWithinIterations ==
    /\ <>(pc \in {"Done", "Aborted"})
    /\ [][iteration' <= MAX_ITERATIONS]_vars

\* C29 witness: a request ended after MAX_ITERATIONS model calls, each
\* answered with tool calls
C29_Witness ==
    /\ pc = "Done"
    /\ iteration = MAX_ITERATIONS
    /\ has_function_calls
    /\ outcome.max_iterations_warning

----------------------------------------------------------------------------
(* Counting before execution                                               *)

\* the function_call and web_search_call items of a response
ToolCallItems(items) ==
    SelectSeq(items,
              LAMBDA e : e.type \in {"function_call", "web_search_call"})

\* C30: in normal mode a request whose tool-call counter exceeds
\* MAX_TOOL_CALLS_PER_REQUEST is aborted by the scan with no tool call of
\* the response executed; a scan that leads to the dispatch has counted
\* every tool-call item of the response with none executed yet; and the
\* step that executes tool calls counts nothing.
C30_CountedBeforeExecuted ==
    /\ []((~ask_mode /\ tool_call_count > MAX_TOOL_CALLS_PER_REQUEST) =>
             (AbortedBy("tool_calls") /\ executed = << >>))
    /\ [][~ask_mode =>
             /\ (pc = "InspectingOutput" /\ pc' = "DispatchingTools") =>
                    /\ tool_call_count' =
                           tool_call_count + Len(ToolCallItems(response))
                    /\ executed' = << >>
             /\ executed' # executed /\ executed' # << >> =>
                    /\ pc = "DispatchingTools"
                    /\ tool_call_count' = tool_call_count]_vars

\* C30 witness: in normal mode the seventh response asked for three tools
\* with 18 calls counted before it; its third call took the counter to 21
\* and none of the three was executed
C30_Witness ==
    /\ ~ask_mode
    /\ iteration = 7
    /\ Len(FunctionCalls(response)) = 3
    /\ tool_call_count = MAX_TOOL_CALLS_PER_REQUEST + 1
    /\ AbortedBy("tool_calls")
    /\ executed = << >>

----------------------------------------------------------------------------
(* Properties of voice mode                                                *)

\* the function_call_output events sent for a call
SentOutputsFor(id) ==
    SelectSeq(sent, LAMBDA e : e.type = "function_call_output"
                               /\ e.call_id = id)

\* the call has been dealt with: no call of _execute_tool or
\* _send_function_result is under way for it
Finished(id) == \A r \in tool_runs : r.call_id # id

\* a function_call_output for the call was sent, and a response.create
\* after it
Answered(id) ==
    \E i, j \in 1..Len(sent) :
        /\ i < j
        /\ sent[i].type = "function_call_output"
        /\ sent[i].call_id = id
        /\ sent[j].type = "response.create"

\* C31: in voice mode, while the connection stays open, every function-call
\* event received is answered by exactly one function_call_output with its
\* call_id, followed by a response.create, also when the tool raises or is
\* unknown; generate_image and edit_image are answered from a background
\* thread, which leaves the callback thread free for later events, and all
\* other tools inline on the callback thread.
C31_EveryCallAnsweredOnce ==
    /\ \A k \in 1..Len(calls) :
           /\ Len(SentOutputsFor(calls[k].call_id)) <= 1
           /\ (connected /\ Finished(calls[k].call_id)) =>
                  /\ Len(SentOutputsFor(calls[k].call_id)) = 1
                  /\ Answered(calls[k].call_id)
    /\ \A r \in tool_runs :
           r.inline <=> r.name \notin {"generate_image", "edit_image"}
    /\ (cb = "in_tool") <=> (\E r \in tool_runs : r.inline)
    /\ (connected /\ tool_runs = {}) =>
           Len(SelectSeq(sent, LAMBDA e : e.type = "response.create"))
               = Len(calls)

\* two calls on an open connection: generate_image raised on its
\* background thread and its answer is still to be sent, while the later
\* call, of an unknown tool, has been answered on the callback thread
C31_Witness ==
    /\ connected
    /\ Len(calls) = 2
    /\ calls[1].name = "generate_image"
    /\ \E r \in tool_runs :
           /\ r.call_id = calls[1].call_id
           /\ r.at = "send_output"
           /\ r.output = "error"
    /\ calls[2].name = "frobnicate"
    /\ SentOutputsFor(calls[2].call_id)
           = <<SentEvent("function_call_output", calls[2].call_id,
                         "unknown")>>
    /\ Answered(calls[2].call_id)
    /\ cb = "idle"

\* C32: in voice mode with ask_mode set, an execute_command function call
\* never calls execute_command, and (the connection being open) a
\* function_call_output with the call's call_id and the refusal text is sent
\* back.
C32_AskModeRefusesCommand ==
    ask_mode =>
        /\ \A i \in 1..Len(invoked) : invoked[i].name # "execute_command"
        /\ \A r \in tool_runs :
               (r.name = "execute_command" /\ r.at # "execute") =>
                   r.output = "disabled"
        /\ \A k \in 1..Len(calls) :
               (/\ calls[k].name = "execute_command"
                /\ connected
                /\ Finished(calls[k].call_id)) =>
                   SentOutputsFor(calls[k].call_id)
                       = <<SentEvent("function_call_output",
                                     calls[k].call_id, "disabled")>>

\* in ask mode, an execute_command call was refused and the refusal sent
C32_Witness ==
    /\ ask_mode
    /\ connected
    /\ \E k \in 1..Len(calls) :
           /\ calls[k].name = "execute_command"
           /\ Finished(calls[k].call_id)
           /\ SentOutputsFor(calls[k].call_id)
                  = <<SentEvent("function_call_output", calls[k].call_id,
                                "disabled")>>
    /\ invoked = << >>

\* UsageStats.calculate_cost, lines 38-49, at given rates per token.
\* config/settings.py defines no REALTIME_PRICING; the rates used here are
\* an example, 32, 0.40 and 64 dollars per million tokens, and any rates
\* above zero serve as well
ExampleRates == [input |-> 6400, cached |-> 80, output |-> 12800]
SessionCost(u) ==
    LET total_input == u.input_tokens + u.input_audio_tokens
        total_output == u.output_tokens + u.output_audio_tokens
        non_cached_input == Max(0, total_input - u.cached_tokens)
    IN  non_cached_input * ExampleRates.input
            + u.cached_tokens * ExampleRates.cached
            + total_output * ExampleRates.output

\* C33: once a response.done event has brought the cost of the session to
\* MAX_COST_PER_REQUEST or more, the session is marked cost-limited
\* (cost_limit_reached set, running cleared), and the cost warning is shown
\* at most once. (The safety half of the claim: a session that is never
\* marked does not leave its loop for that reason either.)
C33_CostLimitMarksSession ==
    /\ (cb = "idle" /\ SessionCost(realtime_usage) >= MAX_COST_PER_REQUEST)
           => (cost_limit_reached /\ ~running)
    /\ warnings <= 1

\* C34: a voice session is persisted to the memory store at most once,
\* whichever way it ends: a second call of VoiceSession.stop adds no second
\* conversation record (and so does not add the session's cost again).
C34_SessionSavedOnce ==
    Len(SelectSeq(added, LAMBDA c : c.question = "[Voice Session]")) <= 1

\* C35: when the user starts speaking during a response, a response.cancel
\* is sent and every audio chunk queued for playback before the event is
\* discarded: no chunk received before a barge-in is played after it.
C35_BargeInDiscardsQueuedAudio ==
    /\ Len(SelectSeq(sent, LAMBDA e : e.type = "response.cancel"))
           = Len(SelectSeq(timeline, LAMBDA e : e.what = "speech_started"))
    /\ \A i, j \in 1..Len(timeline) :
           (/\ i < j
            /\ timeline[i].what = "speech_started"
            /\ timeline[j].what = "played") =>
               timeline[j].at > timeline[i].at

----------------------------------------------------------------------------
(* Properties of the cache                                                 *)

\* C36: CacheManager.get never returns a value whose age (now minus the
\* timestamp of the set that stored it) is greater than or equal to the
\* TTL, and the in-memory tier and the on-disk tier agree on whether an
\* entry of a given age is expired.
C36_NoExpiredValueReturned ==
    /\ got.value # << >> => got.age < CacheTtl
    /\ \A k \in CacheKeys :
           (disk_cache[k] # << >> /\ disk_cache[k] # <<CorruptEntry>>) =>
               LET age == now - disk_cache[k][1].timestamp
               IN  MemoryFresh(age, CacheTtl) <=> ~DiskExpired(age, CacheTtl)

----------------------------------------------------------------------------
(* Properties of the list of executed commands                             *)

\* C37: the list of executed commands that process_question reports at the
\* end of a request holds only commands that were run as a subprocess: a
\* command blocked by read-only mode, refused as interactive or declined at
\* the confirmation prompt is not in it.
C37_ListedCommandsWereRun ==
    pc = "Done" => executed_commands \subseteq spawned_commands

============================================================================
